---- MODULE Spec2Model ----
(***************************************************************************)
(* A model of plovary (src/plovary.py): the key-layout registry (System),  *)
(* chords and their algebra, the chord parser and renderer, and the        *)
(* Dictionary combinators.                                                 *)
(*                                                                         *)
(* Key names and notation text are strings, as in the source; a Python     *)
(* list is a sequence, a frozenset a set, an insertion-ordered dict a      *)
(* sequence of entries.  A call that raises yields Raise(<exception>),     *)
(* one that returns yields Return(<value>).                                *)
(***************************************************************************)
EXTENDS Integers, Sequences, FiniteSets, TLC

VARIABLES
    registry,  \* the registry (System) objects alive, by identity
    op,        \* the operation applied last ("init" before any)
    a, b,      \* the chord operands of the chord algebra
    third,     \* the third chord operand of a nested combine
    chord,     \* the chord handed to the renderer
    text,      \* the notation text rendered last / handed to the parser
    dictA,     \* the left Dictionary operand (its entries, in dict order)
    dictB,     \* the right Dictionary operand
    result,    \* what the operation returned or raised
    warnings,  \* the number of warnings the operation wrote to stderr
    write_warnings,  \* the module's switch of the same name
    tokens,    \* the token sequence handed to the host-facing lookup
    config,    \* the arguments of the registry construction
    value,     \* the value handed to toggle / to keys_for
    default,   \* the default handed to toggle / to with_empty_chord
    pairs,     \* the sequence of pairs a Dictionary is constructed from
    listed,    \* the list of keys handed to the difference
    item,      \* the key handed to a subscript, an assignment or `in`
    keyFn,     \* map's `keys` argument
    valueFn,   \* map's `values` argument
    heap,      \* the dict objects alive, by identity: a Dictionary holds one
    pc,        \* the position of System.parse, run step by step
    parse_left,  \* parse's local `left`
    parse_out,   \* parse's local `out`
    unordered_done  \* try_consume_unordered's local `done`

\* the state of the combinators' arguments, of the dict objects and of the
\* stepwise parse
extra == <<pairs, listed, item, keyFn, valueFn, heap, pc, parse_left, parse_out,
          unordered_done>>

vars == <<registry, op, a, b, third, chord, text, dictA, dictB, result, warnings,
          write_warnings, tokens, config, value, default, extra>>

\* nothing constructed, no parse under way
InitExtra ==
    /\ pairs = <<>>
    /\ listed = [list |-> <<>>]
    /\ item = <<>>
    /\ keyFn = "identity"
    /\ valueFn = "identity"
    /\ heap = <<>>
    /\ pc = [at |-> "idle"]
    /\ parse_left = ""
    /\ parse_out = <<>>
    /\ unordered_done = TRUE

Return(v) == [ok |-> TRUE, val |-> v]
Raise(e) == [ok |-> FALSE, err |-> e]

\* Python computes a value before it goes on to use it: v is evaluated here,
\* once, and a definition guarded by computed(v) then reads the result
computed(v) == v = v

\* warn, called n times: what reaches stderr
warn(n) == IF write_warnings THEN n ELSE 0

---------------------------------------------------------------------------
(* Python's str and list primitives that the source uses.                  *)

\* str.startswith
startswith(s, p) == Len(p) <= Len(s) /\ SubSeq(s, 1, Len(p)) = p

\* str.endswith
endswith(s, p) == Len(p) <= Len(s) /\ SubSeq(s, Len(s) - Len(p) + 1, Len(s)) = p

\* the characters of a string, as `for j in i` visits them
chars(s) == [k \in 1..Len(s) |-> SubSeq(s, k, k)]

\* `"-" in i` for a one-character needle
contains_char(s, ch) == \E k \in 1..Len(s) : SubSeq(s, k, k) = ch

\* str.replace("-", "")
RECURSIVE remove_hyphens(_)
remove_hyphens(s) ==
    IF s = "" THEN ""
    ELSE IF Head(s) = "-" THEN remove_hyphens(Tail(s))
    ELSE Head(s) \o remove_hyphens(Tail(s))

\* `x in list`
in_list(x, l) == \E k \in 1..Len(l) : l[k] = x

\* set(list)
to_set(l) == {l[k] : k \in 1..Len(l)}

\* list.index(x): the first position of x (0-based, as in Python); the
\* caller checks membership first
list_index(l, x) == (CHOOSE k \in 1..Len(l) : l[k] = x /\ \A j \in 1..(k - 1) : l[j] /= x) - 1

\* "".join(list)
RECURSIVE join(_)
join(l) == IF l = <<>> THEN "" ELSE Head(l) \o join(Tail(l))

\* list.sort(key=...) on <<key, item>> pairs.  The sort is stable: an item
\* goes after those of a smaller key and after those of an equal key that
\* stood before it
sort_rank(l, k) ==
    Cardinality({j \in 1..Len(l) : l[j][1] < l[k][1] \/ (l[j][1] = l[k][1] /\ j < k)}) + 1

sort_pairs(l) == [r \in 1..Len(l) |-> l[CHOOSE k \in 1..Len(l) : sort_rank(l, k) = r]]

\* is_sorted: all(a <= b for a, b in sliding_window(iterable, size=2))
is_sorted(l) == \A k \in 1..(Len(l) - 1) : l[k] <= l[k + 1]

---------------------------------------------------------------------------
(* The registry: class System.                                             *)

\* A replacement table entry: dict item name -> list of real keys
Rule(name, keys) == [name |-> name, keys |-> keys]

\* `key in table` and `table[key]` for a replacement table
in_table(table, key) == \E k \in 1..Len(table) : table[k].name = key
table_get(table, key) == table[CHOOSE k \in 1..Len(table) : table[k].name = key].keys
table_keys(table) == [k \in 1..Len(table) |-> table[k].name]

\* class EnglishSystem: the class attributes System.__init__ falls back to
EnglishSystem ==
    [ name |-> "English Stenotype",
      key_order |-> << "#",
                       "S-", "T-", "K-", "P-", "W-", "H-", "R-",
                       "A", "O", "*", "-", "E", "U",
                       "-F", "-R", "-P", "-B", "-L", "-G", "-T", "-S", "-D", "-Z" >>,
      unordered_keys |-> << "#" >>,
      combining_keys |-> << "#", "*" >>,
      optional_replacements |-> <<
          Rule("B-", <<"P-", "W-">>),
          Rule("C-", <<"K-", "R-">>),
          Rule("D-", <<"T-", "K-">>),
          Rule("F-", <<"T-", "P-">>),
          Rule("G-", <<"T-", "K-", "P-", "W-">>),
          Rule("J-", <<"S-", "K-", "W-", "R-">>),
          Rule("L-", <<"H-", "R-">>),
          Rule("M-", <<"P-", "H-">>),
          Rule("N-", <<"T-", "P-", "H-">>),
          Rule("Q-", <<"K-", "W-">>),
          Rule("V-", <<"S-", "R-">>),
          Rule("X-", <<"K-", "P-">>),
          Rule("Y-", <<"K-", "W-", "R-">>),
          Rule("Z-", <<"S-", "*">>),
          Rule("I", <<"E", "U">>),
          Rule("-J", <<"-P", "-B", "-L", "-G">>),
          Rule("-K", <<"-B", "-G">>),
          Rule("-M", <<"-P", "-L">>),
          Rule("-N", <<"-P", "-B">>),
          Rule("-V", <<"*", "-F">>),
          Rule("-X", <<"-B", "-G", "-S">>) >>,
      mandatory_replacements |-> <<
          Rule("1-", <<"#", "S-">>),
          Rule("2-", <<"#", "T-">>),
          Rule("3-", <<"#", "P-">>),
          Rule("4-", <<"#", "H-">>),
          Rule("5", <<"#", "A">>),
          Rule("0", <<"#", "O">>),
          Rule("-6", <<"#", "-F">>),
          Rule("-7", <<"#", "-P">>),
          Rule("-8", <<"#", "-L">>),
          Rule("-9", <<"#", "-T">>) >> ]

\* System.assert_real_key, as a predicate: no key raises
real_keys(sys, keys) == \A k \in 1..Len(keys) : in_list(keys[k], sys.all_keys)

\* System.real_key_index (of a real key)
real_key_index(sys, key) == list_index(sys.key_order, key)

\* System.real_keys_ordered with ignore_unordered=False (of real keys)
real_keys_ordered(sys, keys) ==
    LET ordered == SelectSeq(keys, LAMBDA i : ~in_list(i, sys.unordered_keys))
    IN  is_sorted([k \in 1..Len(ordered) |-> real_key_index(sys, ordered[k])])

\* System.assert_key, as a predicate
is_key(sys, key) ==
    \/ in_list(key, sys.all_keys)
    \/ in_table(sys.optional_replacements, key)
    \/ in_table(sys.mandatory_replacements, key)

\* System.expand_key (of a valid pseudo key)
expand_key(sys, key) ==
    IF in_list(key, sys.all_keys) THEN <<key>>
    ELSE IF in_table(sys.optional_replacements, key)
    THEN table_get(sys.optional_replacements, key)
    ELSE table_get(sys.mandatory_replacements, key)

\* System.key_unordered
key_unordered(sys, key) ==
    LET e == expand_key(sys, key)
    IN  \A k \in 1..Len(e) : in_list(e[k], sys.unordered_keys)

\* System.key_index
key_index(sys, key) ==
    LET e == expand_key(sys, key)
        ordered == SelectSeq(e, LAMBDA i : ~in_list(i, sys.unordered_keys))
    IN  IF ordered /= <<>> THEN real_key_index(sys, ordered[1])
        ELSE real_key_index(sys, e[1])

\* pseudo_keys_where (local to System.__init__): base plus the selected
\* replacement names, sorted by key_index
pseudo_keys_where(sys, base, selected) ==
    LET out == base \o selected
        sorted == sort_pairs([k \in 1..Len(out) |-> <<key_index(sys, out[k]), out[k]>>])
    IN  [k \in 1..Len(sorted) |-> sorted[k][2]]

\* the lambda of left_middle_pseudo_keys: it visits the characters of the
\* replacement's name
names_left_middle_key(sys, i) ==
    \E k \in 1..Len(i) : in_list(chars(i)[k], sys.left_middle_keys)

\* System.__init__, up to the replacement checks: the fields that do not
\* depend on the pseudo keys.  id stands for the object's identity.
system_base(id, cfg) ==
    LET all_keys == SelectSeq(cfg.key_order, LAMBDA i : i /= "-")
        middle_keys_and_hyphen ==
            SelectSeq(cfg.key_order,
                      LAMBDA i : \/ ~contains_char(i, "-")
                                 \/ (i = "-" /\ ~in_list(i, cfg.unordered_keys)))
        hyphen_idx == list_index(middle_keys_and_hyphen, "-")
        left_middle_keys == SubSeq(middle_keys_and_hyphen, 1, hyphen_idx)
        right_middle_keys ==
            SubSeq(middle_keys_and_hyphen, hyphen_idx + 2, Len(middle_keys_and_hyphen))
    IN  [ id |-> id,
          name |-> cfg.name,
          key_order |-> cfg.key_order,
          all_keys |-> all_keys,
          unordered_keys |-> cfg.unordered_keys,
          combining_keys |-> cfg.combining_keys,
          optional_replacements |-> cfg.optional_replacements,
          mandatory_replacements |-> cfg.mandatory_replacements,
          left_keys |-> SelectSeq(all_keys, LAMBDA i : endswith(i, "-")),
          right_keys |-> SelectSeq(all_keys, LAMBDA i : startswith(i, "-")),
          left_middle_keys |-> left_middle_keys,
          right_middle_keys |-> right_middle_keys,
          middle_keys |-> left_middle_keys \o right_middle_keys ]

\* System.__init__, the pseudo-key lists
system_pseudo_keys(base) ==
    LET names == table_keys(base.optional_replacements)
                     \o table_keys(base.mandatory_replacements)
        replacements == SelectSeq(names, LAMBDA i : ~key_unordered(base, i))
        left == pseudo_keys_where(base, base.left_keys,
                    SelectSeq(replacements, LAMBDA i : endswith(i, "-")))
        left_middle == pseudo_keys_where(base, base.left_middle_keys,
                    SelectSeq(replacements,
                        LAMBDA i : ~contains_char(i, "-") /\ names_left_middle_key(base, i)))
        right_middle == pseudo_keys_where(base, base.right_middle_keys,
                    SelectSeq(replacements,
                        LAMBDA i : ~contains_char(i, "-") /\ ~names_left_middle_key(base, i)))
        right == pseudo_keys_where(base, base.right_keys,
                    SelectSeq(replacements, LAMBDA i : startswith(i, "-")))
    IN  [ left_pseudo_keys |-> left,
          left_middle_pseudo_keys |-> left_middle,
          right_middle_pseudo_keys |-> right_middle,
          middle_pseudo_keys |-> left_middle \o right_middle,
          right_pseudo_keys |-> right,
          pseudo_key_order |-> left \o left_middle \o right_middle \o right ]

\* System.__init__ with the order of the optional replacements checked only: C18
\* tells it from the source's
System_optional_checked(id, cfg) ==
    LET base == system_base(id, cfg)
        rules == cfg.optional_replacements \o cfg.mandatory_replacements
        checked == cfg.optional_replacements
    IN  IF ~in_list("-", SelectSeq(cfg.key_order,
                LAMBDA i : \/ ~contains_char(i, "-")
                           \/ (i = "-" /\ ~in_list(i, cfg.unordered_keys))))
        THEN Raise("ValueError")
        ELSE IF \E k \in 1..Len(rules) : ~real_keys(base, rules[k].keys)
        THEN Raise("ValueError")
        ELSE IF \E k \in 1..Len(checked) : ~real_keys_ordered(base, checked[k].keys)
        THEN Raise("ValueError")
        ELSE Return(base @@ system_pseudo_keys(base))

\* System.__init__: raises ValueError when the key order has no "-", when a
\* replacement names a key that is not real, or lists its keys out of steno
\* order; otherwise the registry object
System(id, cfg) ==
    LET base == system_base(id, cfg)
        rules == cfg.optional_replacements \o cfg.mandatory_replacements
    IN  IF ~in_list("-", SelectSeq(cfg.key_order,
                LAMBDA i : \/ ~contains_char(i, "-")
                           \/ (i = "-" /\ ~in_list(i, cfg.unordered_keys))))
        THEN Raise("ValueError")
        ELSE IF \E k \in 1..Len(rules) : ~real_keys(base, rules[k].keys)
        THEN Raise("ValueError")
        ELSE IF \E k \in 1..Len(rules) : ~real_keys_ordered(base, rules[k].keys)
        THEN Raise("ValueError")
        ELSE Return(base @@ system_pseudo_keys(base))

\* `system = EnglishSystem()`, the module's registry, and a second instance
\* of the same class: the same configuration, another object
system == System(1, EnglishSystem).val
system2 == System(2, EnglishSystem).val

---------------------------------------------------------------------------
(* class Chord: a registry (by identity) and a frozenset of real keys.     *)

\* Chord.__init__ (of real keys of the registry)
Chord(sys, keys) == [system |-> sys.id, keys |-> keys]

\* the registry object a chord refers to: self.system
system_of(c) == registry[c.system]

\* System.chord on real keys: each expands to itself
chord_of(sys, keys) == Chord(sys, keys)

\* Chord.assert_same_system, as a predicate: `self.system is other.system`
same_system(x, y) == x.system = y.system

\* Chord.overlaps
overlaps(x, y) ==
    IF ~same_system(x, y) THEN Raise("ValueError")
    ELSE Return(x.keys \cap y.keys /= {})

\* overlaps_noncombining had it kept the combining keys in other.keys: C3
\* tells it from the source's
overlaps_with_combining(x, y) ==
    IF ~same_system(x, y) THEN Raise("ValueError")
    ELSE Return(x.keys \cap y.keys /= {})

\* Chord.overlaps_noncombining: `-` binds tighter than `&`
overlaps_noncombining(x, y) ==
    IF ~same_system(x, y) THEN Raise("ValueError")
    ELSE Return(x.keys \cap (y.keys \ to_set(system_of(x).combining_keys)) /= {})

\* is_superset with the comparison turned round (self.keys <= other.keys):
\* C8 tells it from the source's
is_subset(x, y) ==
    IF ~same_system(x, y) THEN Raise("ValueError")
    ELSE Return(x.keys \subseteq y.keys)

\* Chord.is_superset
is_superset(x, y) ==
    IF ~same_system(x, y) THEN Raise("ValueError")
    ELSE Return(y.keys \subseteq x.keys)

\* Chord.mask: no assert_same_system; the result is of self's registry (the
\* keys are self's, so Chord.__init__ finds them real)
mask(x, y) == Return(chord_of(system_of(x), x.keys \cap y.keys))

\* lax_combine had it dropped other's combining keys
\* (self.keys | other.keys - combining_keys): C4 tells it from the source's
lax_combine_noncombining(x, y) ==
    IF ~same_system(x, y) THEN Raise("ValueError")
    ELSE Return(chord_of(system_of(x),
                         x.keys \cup (y.keys \ to_set(system_of(x).combining_keys))))

\* Chord.lax_combine
lax_combine(x, y) ==
    IF ~same_system(x, y) THEN Raise("ValueError")
    ELSE Return(chord_of(system_of(x), x.keys \cup y.keys))

\* Chord.combine, with assert_no_overlapping_noncombining
combine(x, y) ==
    LET o == overlaps_noncombining(x, y)
    IN  IF ~o.ok THEN o
        ELSE IF o.val THEN Raise("ValueError")
        ELSE lax_combine(x, y)

\* lax_remove had it kept the combining keys
\* (self.keys - (other.keys - combining_keys)): C30 tells it from the
\* source's
lax_remove_noncombining(x, y) ==
    IF ~same_system(x, y) THEN Raise("ValueError")
    ELSE Return(chord_of(system_of(x),
                         x.keys \ (y.keys \ to_set(system_of(x).combining_keys))))

\* Chord.lax_remove
lax_remove(x, y) ==
    IF ~same_system(x, y) THEN Raise("ValueError")
    ELSE Return(chord_of(system_of(x), x.keys \ y.keys))

\* Chord.remove, with assert_is_superset
remove(x, y) ==
    LET s == is_superset(x, y)
    IN  IF ~s.ok THEN s
        ELSE IF ~s.val THEN Raise("ValueError")
        ELSE lax_remove(x, y)

\* Chord.__eq__
chord_eq(x, y) == x.keys = y.keys

\* Chord.__hash__: hash((id(self.system), self.keys)); the hash of a pair is
\* injective enough that the pair itself stands for it
chord_hash(x) == <<x.system, x.keys>>

\* _to_str without outputs.sort: C15 tells it from the source's
outputs_unsorted(c, replacements) ==
    LET sys == system_of(c)
        matching == SelectSeq(replacements, LAMBDA r : to_set(r.keys) \subseteq c.keys)
        uncovered == SelectSeq(sys.all_keys,
                         LAMBDA i : /\ i \in c.keys
                                    /\ ~\E k \in 1..Len(matching) : in_list(i, matching[k].keys))
        needs_dash == /\ c.keys \cap to_set(sys.right_keys) /= {}
                      /\ c.keys \cap to_set(sys.middle_keys) = {}
    IN  table_keys(matching) \o uncovered \o (IF needs_dash THEN <<"-">> ELSE <<>>)

\* Chord._to_str, `outputs` after the sort
outputs_of(c, replacements) ==
    LET sys == system_of(c)
        matching == SelectSeq(replacements, LAMBDA r : to_set(r.keys) \subseteq c.keys)
        uncovered == SelectSeq(sys.all_keys,
                         LAMBDA i : /\ i \in c.keys
                                    /\ ~\E k \in 1..Len(matching) : in_list(i, matching[k].keys))
        needs_dash == /\ c.keys \cap to_set(sys.right_keys) /= {}
                      /\ c.keys \cap to_set(sys.middle_keys) = {}
        outputs == table_keys(matching) \o uncovered
                       \o (IF needs_dash THEN <<"-">> ELSE <<>>)
        sorted == sort_pairs([k \in 1..Len(outputs) |->
                      << IF outputs[k] /= "-" THEN key_index(sys, outputs[k])
                         ELSE list_index(sys.key_order, "-"),
                         outputs[k] >>])
    IN  [k \in 1..Len(sorted) |-> sorted[k][2]]

\* Chord._to_str: the outputs joined, the hyphens of the names removed
to_str(c, replacements) ==
    LET outputs == outputs_of(c, replacements)
    IN  join([k \in 1..Len(outputs) |->
                 IF outputs[k] = "-" THEN "-" ELSE remove_hyphens(outputs[k])])

\* plover_str with the optional replacements too: C16 tells it from the
\* source's
plover_str_all_replacements(c) ==
    to_str(c, system_of(c).optional_replacements \o system_of(c).mandatory_replacements)

\* Chord.plover_str
plover_str(c) == to_str(c, system_of(c).mandatory_replacements)

---------------------------------------------------------------------------
(* System.parse.  The scan's state is the text left and the keys out.      *)

\* try_consume_one
\* try_consume_one without `.replace("-", "")`: C19 tells it from the source's
try_consume_one_with_hyphen(sys, st, pseudo_key) ==
    IF startswith(st.left, pseudo_key)
    THEN [ left |-> SubSeq(st.left, Len(pseudo_key) + 1, Len(st.left)),
           out |-> st.out \o expand_key(sys, pseudo_key),
           hit |-> TRUE ]
    ELSE [left |-> st.left, out |-> st.out, hit |-> FALSE]

try_consume_one(sys, st, pseudo_key) ==
    LET without_hyphen == remove_hyphens(pseudo_key)
    IN  IF startswith(st.left, without_hyphen)
        THEN [ left |-> SubSeq(st.left, Len(without_hyphen) + 1, Len(st.left)),
               out |-> st.out \o expand_key(sys, pseudo_key),
               hit |-> TRUE ]
        ELSE [left |-> st.left, out |-> st.out, hit |-> FALSE]

\* all_unordered without `self.unordered_keys +`: C14 tells it from the
\* source's
all_unordered_replacements(sys) ==
    SelectSeq(table_keys(sys.optional_replacements)
                  \o table_keys(sys.mandatory_replacements),
              LAMBDA i : key_unordered(sys, i))

\* all_unordered
all_unordered(sys) ==
    sys.unordered_keys
        \o SelectSeq(table_keys(sys.optional_replacements)
                         \o table_keys(sys.mandatory_replacements),
                     LAMBDA i : key_unordered(sys, i))

\* one pass of try_consume_unordered's for loop, from position k of
\* all_unordered; hit holds `not done`
RECURSIVE unordered_pass(_, _, _, _)
unordered_pass(sys, unordered, st, k) ==
    IF k > Len(unordered) THEN st
    ELSE LET t == try_consume_one(sys, st, unordered[k])
             n == [t EXCEPT !.hit = st.hit \/ t.hit]
         IN  CASE computed(n) -> unordered_pass(sys, unordered, n, k + 1)

\* try_consume_unordered: passes until one consumes nothing
RECURSIVE try_consume_unordered(_, _, _)
try_consume_unordered(sys, unordered, st) ==
    LET p == unordered_pass(sys, unordered, [st EXCEPT !.hit = FALSE], 1)
    IN  IF p.hit THEN try_consume_unordered(sys, unordered, p) ELSE p

\* try_consume_all, from position k of keys
RECURSIVE try_consume_all(_, _, _, _, _)
try_consume_all(sys, unordered, st, keys, k) ==
    IF k > Len(keys) THEN st
    ELSE LET n == try_consume_one(sys, try_consume_unordered(sys, unordered, st), keys[k])
         IN  CASE computed(n) -> try_consume_all(sys, unordered, n, keys, k + 1)

\* `if left.startswith("-"): left = left[len("-"):]`
skip_hyphen(s1) ==
    IF startswith(s1.left, "-")
    THEN [s1 EXCEPT !.left = SubSeq(s1.left, 2, Len(s1.left))]
    ELSE s1

\* System.parse, the scan: `left` and `out` when the four calls of
\* try_consume_all and try_consume_unordered and the hyphen are done;
\* unordered is all_unordered
scan_with(sys, txt, unordered) ==
    try_consume_unordered(sys, unordered,
        try_consume_all(sys, unordered,
            skip_hyphen(
                try_consume_unordered(sys, unordered,
                    try_consume_all(sys, unordered,
                        [left |-> txt, out |-> <<>>, hit |-> FALSE],
                        sys.left_pseudo_keys \o sys.left_middle_pseudo_keys, 1))),
            sys.right_middle_pseudo_keys \o sys.right_pseudo_keys, 1))

\* the scan, all_unordered computed first
scan(sys, txt) == scan_with(sys, txt, all_unordered(sys))

\* parse without hyphen_maybe_missing: C12 tells it from the source's
parse_left_only(sys, txt) ==
    LET s3 == scan(sys, txt)
    IN  IF s3.left /= ""
        THEN Raise("ValueError")
        ELSE [ ok |-> TRUE,
               val |-> chord_of(sys, to_set(s3.out)),
               warned |-> ~real_keys_ordered(sys, s3.out) ]

\* parse raising where the source warns: C13 tells it from the source's
parse_strict(sys, txt) ==
    LET s3 == scan(sys, txt)
        as_set == to_set(s3.out)
        hyphen_maybe_missing ==
            /\ ~contains_char(txt, "-")
            /\ as_set \cap to_set(sys.middle_keys) = {}
            /\ as_set \cap to_set(sys.right_keys) /= {}
    IN  IF hyphen_maybe_missing \/ s3.left /= "" \/ ~real_keys_ordered(sys, s3.out)
        THEN Raise("ValueError")
        ELSE [ok |-> TRUE, val |-> chord_of(sys, as_set), warned |-> FALSE]

\* System.parse after the scan s3: raises ValueError on text left over or
\* a hyphen that may be missing; otherwise the chord, and whether it warned
\* about steno order
parse_scanned(sys, txt, s3) ==
    LET as_set == to_set(s3.out)
        hyphen_maybe_missing ==
            /\ ~contains_char(txt, "-")
            /\ as_set \cap to_set(sys.middle_keys) = {}
            /\ as_set \cap to_set(sys.right_keys) /= {}
    IN  IF hyphen_maybe_missing \/ s3.left /= ""
        THEN Raise("ValueError")
        ELSE [ ok |-> TRUE,
               val |-> chord_of(sys, as_set),
               warned |-> ~real_keys_ordered(sys, s3.out) ]

\* System.parse
parse(sys, txt) == parse_scanned(sys, txt, scan(sys, txt))

---------------------------------------------------------------------------
(* class Dictionary: self.dict, a Python dict, is the sequence of its      *)
(* entries in insertion order.  A key is a chord, or [tuple |-> chords]    *)
(* for a tuple of chords.                                                  *)

is_chord(k) == DOMAIN k = {"system", "keys"}

\* hash(k1) == hash(k2) and k1 == k2: what makes two keys one dict key.
\* A tuple hashes and compares by its items, in order; a chord and a tuple
\* never compare equal (Chord.__eq__ returns NotImplemented)
same_key(k1, k2) ==
    IF is_chord(k1) /\ is_chord(k2)
    THEN chord_hash(k1) = chord_hash(k2) /\ chord_eq(k1, k2)
    ELSE IF ~is_chord(k1) /\ ~is_chord(k2)
    THEN /\ Len(k1.tuple) = Len(k2.tuple)
         /\ \A j \in 1..Len(k1.tuple) :
                /\ chord_hash(k1.tuple[j]) = chord_hash(k2.tuple[j])
                /\ chord_eq(k1.tuple[j], k2.tuple[j])
    ELSE FALSE

Entry(k, v) == [key |-> k, value |-> v]

\* `k in self.dict`
dict_has(d, k) == \E j \in 1..Len(d) : same_key(d[j].key, k)

\* `self.dict[k]` (of a key present)
dict_get(d, k) == d[CHOOSE j \in 1..Len(d) : same_key(d[j].key, k)].value

\* dict.setdefault(k, v), which keeps the value of a key present: C1 tells
\* it from the assignment
dict_setdefault(d, k, v) ==
    IF dict_has(d, k) THEN d ELSE Append(d, Entry(k, v))

\* a list of pairs, which keeps every item: C9 tells it from the dict
list_append(d, k, v) == Append(d, Entry(k, v))

\* `self.dict[k] = v`: a key present keeps its place and its first key object
dict_set(d, k, v) ==
    IF dict_has(d, k)
    THEN [j \in 1..Len(d) |-> IF same_key(d[j].key, k) THEN Entry(d[j].key, v) ELSE d[j]]
    ELSE Append(d, Entry(k, v))

\* Dictionary.__init__ on an iterable of pairs, from its position k on: each
\* item is Return(<<key, value>>), or Raise(e) where producing it raises,
\* which ends the construction.  acc holds the dict and the warnings so far.
RECURSIVE dictionary_from(_, _, _)
dictionary_from(items, k, acc) ==
    IF k > Len(items) THEN [ok |-> TRUE, val |-> acc.dict, warnings |-> acc.warnings]
    ELSE IF ~items[k].ok
    THEN [ok |-> FALSE, err |-> items[k].err, warnings |-> acc.warnings]
    ELSE LET key == items[k].val[1]
             n == [ dict |-> dict_set(acc.dict, key, items[k].val[2]),
                    warnings |-> acc.warnings
                                     + (IF dict_has(acc.dict, key) THEN 1 ELSE 0) ]
         IN  CASE computed(n) -> dictionary_from(items, k + 1, n)

\* Dictionary.__init__ raising on a key present more than once: C21 tells it
\* from the source's
Dictionary_strict(items) ==
    IF \E i \in 1..Len(items) : \E j \in 1..Len(items) :
           i < j /\ same_key(items[i].val[1], items[j].val[1])
    THEN [ok |-> FALSE, err |-> "ValueError", warnings |-> 0]
    ELSE dictionary_from(items, 1, [dict |-> <<>>, warnings |-> 0])

\* Dictionary.__init__: Dictionary(iterable)
Dictionary(items) == dictionary_from(items, 1, [dict |-> <<>>, warnings |-> 0])

\* Dictionary.__iter__: iter(self.dict.items()), as the items of an iterable
dict_items(d) == [j \in 1..Len(d) |-> Return(<<d[j].key, d[j].value>>)]

\* reverse_concat on two strings, which C10 tells from concat
reverse_concat(right, left) == left \o right

\* concat on two strings (middle=None)
concat(left, right) == left \o right

\* Dictionary._add_impl with a Dictionary: Dictionary(chain(self, other))
add_impl(self, other) == Dictionary(dict_items(self) \o dict_items(other))

\* Dictionary.__add__ with a Dictionary
dict_add(self, other) == add_impl(self, other)

\* the generator with its loops exchanged (for kr, vr in other, for kl, vl in
\* self): C2 tells it from the source's
combination_items_other_first(self, other) ==
    [ j \in 1..(Len(self) * Len(other)) |->
        LET l == self[((j - 1) % Len(self)) + 1]
            r == other[((j - 1) \div Len(self)) + 1]
            k == combine(l.key, r.key)
        IN  IF k.ok THEN Return(<<k.val, l.value \o r.value>>) ELSE Raise(k.err) ]

\* the generator of Dictionary.combinations with keys=Chord.combine and
\* values=concat: for kl, vl in self, for kr, vr in other
combination_items(self, other) ==
    [ j \in 1..(Len(self) * Len(other)) |->
        LET l == self[((j - 1) \div Len(other)) + 1]
            r == other[((j - 1) % Len(other)) + 1]
            k == combine(l.key, r.key)
        IN  IF k.ok THEN Return(<<k.val, concat(l.value, r.value)>>) ELSE Raise(k.err) ]

\* Dictionary.combinations with the default combiners
combinations(self, other) == Dictionary(combination_items(self, other))

\* Dictionary.__mul__ with a Dictionary
dict_mul(self, other) == combinations(self, other)

---------------------------------------------------------------------------
(* The operands the operations are applied to.                             *)

\* the chord algebra's operands are built from the first NKeys real keys
NKeys == 3

\* the renderer and the parser are run on the chords of at most MaxChordLen keys
MaxChordLen == 2

\* a Dictionary operand has at most MaxDictLen entries
MaxDictLen == 2

\* System.empty_chord
empty_chord(sys) == chord_of(sys, {})

\* `system` and a second EnglishSystem(): the registry objects constructed
InitRegistry == registry = <<system, system2>>

AlgebraKeys == {registry[1].all_keys[k] : k \in 1..NKeys}

\* chords of both registry objects over the same keys
AlgebraChords == {Chord(registry[i], ks) : i \in {1, 2}, ks \in SUBSET AlgebraKeys}

\* the subsets of S of at most n elements
RECURSIVE SubsetsUpTo(_, _)
SubsetsUpTo(S, n) ==
    IF n = 0 THEN {{}}
    ELSE LET smaller == SubsetsUpTo(S, n - 1)
         IN  smaller \cup {s \cup {k} : s \in smaller, k \in S}

TextChords ==
    {Chord(registry[1], ks) : ks \in SubsetsUpTo(to_set(registry[1].all_keys), MaxChordLen)}

\* Dictionary keys: chords that share no key, only a combining key, or a
\* key that is not combining, and one of the other registry object
DictChords ==
    { empty_chord(registry[1]), Chord(registry[1], {"#"}), Chord(registry[1], {"S-"}),
      Chord(registry[2], {"S-"}) }

DictValues == {"1", "2"}

DictEntries == {Entry(k, v) : k \in DictChords, v \in DictValues}

\* the dicts of n entries: no two entries are one dict key
DictsOfLen(n) ==
    {d \in [1..n -> DictEntries] :
        \A i \in 1..n : \A j \in 1..n : i /= j => ~same_key(d[i].key, d[j].key)}

Dicts == UNION {DictsOfLen(n) : n \in 0..MaxDictLen}

---------------------------------------------------------------------------
(* The chord algebra: the operations on the operands a and b.              *)

ChordFrame == UNCHANGED <<registry, a, b, chord, text, dictA, dictB, write_warnings, tokens, config, value, default, extra>>

ChordOp(name, r) ==
    /\ op' = name
    /\ result' = r
    /\ third' = empty_chord(registry[1])
    /\ warnings' = 0
    /\ ChordFrame

Overlaps == ChordOp("overlaps", overlaps(a, b))

OverlapsNoncombining == ChordOp("overlaps_noncombining", overlaps_noncombining(a, b))

IsSuperset == ChordOp("is_superset", is_superset(a, b))

Mask == ChordOp("mask", mask(a, b))

LaxCombine == ChordOp("lax_combine", lax_combine(a, b))

Combine == ChordOp("combine", combine(a, b))

LaxRemove == ChordOp("lax_remove", lax_remove(a, b))

Remove == ChordOp("remove", remove(a, b))

\* Chord.__add__ with a Chord
chord_add(x, y) == combine(x, y)

\* x + y where x is the outcome of an addition: an exception propagates
add_to(r, y) == IF r.ok THEN chord_add(r.val, y) ELSE r

\* (a + b) + c
AddAdd ==
    \E c \in AlgebraChords :
        /\ op' = "add_add"
        /\ third' = c
        /\ result' = add_to(chord_add(a, b), c)
        /\ warnings' = 0
        /\ ChordFrame

\* a as the key of a one-entry dict, b looked up in it: b == a,
\* hash(b) == hash(a), b in {a: ...}
AsKey ==
    ChordOp("as_key",
            [ eq |-> chord_eq(b, a),
              hash_eq |-> chord_hash(b) = chord_hash(a),
              found |-> dict_has(<<Entry(a, "1")>>, b) ])

\* Chord.__sub__ with a Chord
chord_sub(x, y) == remove(x, y)

\* r - y where r is the outcome of an addition: an exception propagates
sub_from(r, y) == IF r.ok THEN chord_sub(r.val, y) ELSE r

\* (a + b) - b
AddSub == ChordOp("add_sub", sub_from(chord_add(a, b), b))

InitChord ==
    /\ InitExtra
    /\ InitRegistry
    /\ op = "init"
    /\ a \in AlgebraChords
    /\ b \in AlgebraChords
    /\ third = empty_chord(registry[1])
    /\ chord = empty_chord(registry[1])
    /\ text = ""
    /\ dictA = <<>>
    /\ dictB = <<>>
    /\ result = Return(TRUE)
    /\ warnings = 0
    /\ write_warnings = TRUE
    /\ tokens = <<>>
    /\ value = ""
    /\ default = ""
    /\ config = EnglishSystem

NextChord ==
    \/ Overlaps
    \/ OverlapsNoncombining
    \/ IsSuperset
    \/ Mask
    \/ LaxCombine
    \/ Combine
    \/ LaxRemove
    \/ Remove
    \/ AddAdd
    \/ AddSub
    \/ AsKey

SpecChord == InitChord /\ [][NextChord]_vars

---------------------------------------------------------------------------
(* Rendering and parsing: chord is rendered into text, text is parsed.     *)

\* Chord.plover_str of chord
Render ==
    /\ op' = "plover_str"
    /\ text' = plover_str(chord)
    /\ result' = Return(text')
    /\ warnings' = 0
    /\ UNCHANGED <<registry, a, b, third, chord, dictA, dictB, write_warnings, tokens, config, value, default, extra>>

\* System.parse of text
Parse ==
    /\ op' = "parse"
    /\ result' = parse(registry[1], text)
    /\ warnings' = warn(IF result'.ok /\ result'.warned THEN 1 ELSE 0)
    /\ UNCHANGED <<registry, a, b, third, chord, text, dictA, dictB, write_warnings, tokens, config, value, default, extra>>

InitText ==
    /\ InitExtra
    /\ InitRegistry
    /\ op = "init"
    /\ chord \in TextChords
    /\ text = ""
    /\ a = empty_chord(registry[1])
    /\ b = empty_chord(registry[1])
    /\ third = empty_chord(registry[1])
    /\ dictA = <<>>
    /\ dictB = <<>>
    /\ result = Return(TRUE)
    /\ warnings = 0
    /\ write_warnings = TRUE
    /\ tokens = <<>>
    /\ value = ""
    /\ default = ""
    /\ config = EnglishSystem

NextText ==
    \/ Render
    \/ Parse

SpecText == InitText /\ [][NextText]_vars

---------------------------------------------------------------------------
(* The Dictionary combinators on the operands dictA and dictB.             *)

DictOp(name, r) ==
    /\ op' = name
    /\ result' = r
    /\ warnings' = warn(r.warnings)
    /\ UNCHANGED <<registry, a, b, third, chord, text, dictA, dictB, write_warnings, tokens, config, value, default, extra>>

\* dictA + dictB
Add == DictOp("add", dict_add(dictA, dictB))

\* dictA * dictB
Mul == DictOp("mul", dict_mul(dictA, dictB))

InitDict ==
    /\ InitExtra
    /\ InitRegistry
    /\ op = "init"
    /\ dictA \in Dicts
    /\ dictB \in Dicts
    /\ a = empty_chord(registry[1])
    /\ b = empty_chord(registry[1])
    /\ third = empty_chord(registry[1])
    /\ chord = empty_chord(registry[1])
    /\ text = ""
    /\ result = Return(TRUE)
    /\ warnings = 0
    /\ write_warnings = TRUE
    /\ tokens = <<>>
    /\ value = ""
    /\ default = ""
    /\ config = EnglishSystem

NextDict ==
    \/ Add
    \/ Mul

SpecDict == InitDict /\ [][NextDict]_vars

\* the module's default specification: the chord algebra
---------------------------------------------------------------------------
(* The host-facing lookup and toggle.                                      *)

\* Dictionary.__getitem__: a chord finds the entry of its one-element
\* tuple, a one-element tuple that of its chord
dictionary_getitem(d, key) ==
    IF is_chord(key) /\ dict_has(d, [tuple |-> <<key>>])
    THEN Return(dict_get(d, [tuple |-> <<key>>]))
    ELSE IF ~is_chord(key) /\ Len(key.tuple) = 1 /\ dict_has(d, key.tuple[1])
    THEN Return(dict_get(d, key.tuple[1]))
    ELSE IF dict_has(d, key) THEN Return(dict_get(d, key))
    ELSE Raise("KeyError")

\* tuple(system.parse(i) for i in key), from position k of key: the first
\* token that does not parse ends it.  p is the outcome of parsing key[k]
RECURSIVE parse_tokens(_, _, _, _)
RECURSIVE parse_tokens_from(_, _, _, _, _)
parse_tokens_from(sys, key, k, acc, p) ==
    IF ~p.ok THEN [ok |-> FALSE, err |-> p.err, warnings |-> acc.warnings]
    ELSE LET n == [ chords |-> Append(acc.chords, p.val),
                    warnings |-> acc.warnings + (IF p.warned THEN 1 ELSE 0) ]
         IN  CASE computed(n) -> parse_tokens(sys, key, k + 1, n)

parse_tokens(sys, key, k, acc) ==
    IF k > Len(key) THEN [ok |-> TRUE, val |-> acc.chords, warnings |-> acc.warnings]
    ELSE parse_tokens_from(sys, key, k, acc, parse(sys, key[k]))

\* plover_lookup's `self[...]` where the tuple is the outcome parsed, and
\* its handler: a ValueError becomes a KeyError
lookup_parsed(self, parsed) ==
    IF ~parsed.ok
    THEN [ok |-> FALSE, err |-> "KeyError", warnings |-> parsed.warnings]
    ELSE dictionary_getitem(self, [tuple |-> parsed.val]) @@ [warnings |-> parsed.warnings]

\* the same without the handler
lookup_parsed_uncaught(self, parsed) ==
    IF ~parsed.ok THEN parsed
    ELSE dictionary_getitem(self, [tuple |-> parsed.val]) @@ [warnings |-> parsed.warnings]

\* plover_lookup with `except ValueError` left out: C11 tells it from the
\* source's
plover_lookup_uncaught(self, key, sys) ==
    lookup_parsed_uncaught(self,
        parse_tokens(sys, key, 1, [chords |-> <<>>, warnings |-> 0]))

\* Dictionary.plover_lookup
plover_lookup(self, key, sys) ==
    lookup_parsed(self, parse_tokens(sys, key, 1, [chords |-> <<>>, warnings |-> 0]))

\* the dict display {as_chord: value, self.empty_chord: default} of toggle,
\* which sets the two keys in turn, as a Dictionary; as_chord is the outcome
\* of `key if isinstance(key, Chord) else self.parse(key)`
toggle_of(sys, as_chord, val, dflt) ==
    IF ~as_chord.ok THEN [ok |-> FALSE, err |-> as_chord.err, warnings |-> 0]
    ELSE [ ok |-> TRUE,
           val |-> dict_set(dict_set(<<>>, as_chord.val, val), empty_chord(sys), dflt),
           warnings |-> IF as_chord.warned THEN 1 ELSE 0 ]

\* System.toggle: key is a chord or [str |-> text]
toggle(sys, key, val, dflt) ==
    toggle_of(sys,
              IF is_chord(key) THEN [ok |-> TRUE, val |-> key, warned |-> FALSE]
              ELSE parse(sys, key.str),
              val, dflt)

MaxTokens == 2

\* the empty chord, a left key, the unordered key, and a left and a right
\* key without the separator, which do not parse
LookupTexts == {"", "S", "#", "TS"}

RECURSIVE TokensUpTo(_)
TokensUpTo(n) ==
    IF n = 0 THEN {<<>>}
    ELSE LET shorter == TokensUpTo(n - 1)
         IN  shorter \cup {Append(t, x) : t \in shorter, x \in LookupTexts}

\* the keys of a Dictionary of chords, and of one of tuples of chords
ChordKeys == DictChords
TupleKeys ==
    { [tuple |-> <<>>],
      [tuple |-> <<Chord(registry[1], {"S-"})>>],
      [tuple |-> <<Chord(registry[1], {"S-"}), Chord(registry[1], {"#"})>>],
      [tuple |-> <<Chord(registry[2], {"S-"})>>] }

\* the dicts of no, one and two entries over keys of one kind
DictsOver(keys) ==
    {<<>>} \cup {<<Entry(k, "1")>> : k \in keys}
           \cup UNION {{<<Entry(k, "1"), Entry(l, "2")>> : l \in keys \ {k}} : k \in keys}

LookupDicts == DictsOver(ChordKeys) \cup DictsOver(TupleKeys)

\* dictA.plover_lookup(tokens, system=system)
PloverLookup ==
    /\ op' = "plover_lookup"
    /\ result' = plover_lookup(dictA, tokens, registry[1])
    /\ warnings' = warn(result'.warnings)
    /\ UNCHANGED <<registry, a, b, third, chord, text, dictA, dictB,
                   write_warnings, tokens, config, value, default, extra>>

\* dictA[tuple(system.parse(i) for i in tokens)], the lookup without its
\* handler
GetItem ==
    /\ op' = "getitem"
    /\ result' = plover_lookup_uncaught(dictA, tokens, registry[1])
    /\ warnings' = warn(result'.warnings)
    /\ UNCHANGED <<registry, a, b, third, chord, text, dictA, dictB,
                   write_warnings, tokens, config, value, default, extra>>

InitLookup ==
    /\ InitExtra
    /\ InitRegistry
    /\ op = "init"
    /\ dictA \in LookupDicts
    /\ tokens \in TokensUpTo(MaxTokens)
    /\ dictB = <<>>
    /\ a = empty_chord(registry[1])
    /\ b = empty_chord(registry[1])
    /\ third = empty_chord(registry[1])
    /\ chord = empty_chord(registry[1])
    /\ text = ""
    /\ result = Return(TRUE)
    /\ warnings = 0
    /\ write_warnings = TRUE
    /\ config = EnglishSystem
    /\ value = ""
    /\ default = ""

NextLookup ==
    \/ PloverLookup
    \/ GetItem

SpecLookup == InitLookup /\ [][NextLookup]_vars

\* the texts handed to toggle: the empty chord's, a key's, a text out of
\* steno order, and one that does not parse
ToggleTexts == {"", "S", "ZA", "TS"}

\* system.toggle(chord, value, default=default)
ToggleChord ==
    /\ op' = "toggle_chord"
    /\ result' = toggle(registry[1], chord, value, default)
    /\ warnings' = warn(result'.warnings)
    /\ UNCHANGED <<registry, a, b, third, chord, text, dictA, dictB,
                   write_warnings, tokens, config, value, default, extra>>

\* system.toggle(text, value, default=default)
ToggleStr ==
    /\ op' = "toggle_str"
    /\ result' = toggle(registry[1], [str |-> text], value, default)
    /\ warnings' = warn(result'.warnings)
    /\ UNCHANGED <<registry, a, b, third, chord, text, dictA, dictB,
                   write_warnings, tokens, config, value, default, extra>>

InitToggle ==
    /\ InitExtra
    /\ InitRegistry
    /\ op = "init"
    /\ chord \in AlgebraChords
    /\ text \in ToggleTexts
    /\ value \in DictValues
    /\ default \in DictValues
    /\ dictA = <<>>
    /\ dictB = <<>>
    /\ a = empty_chord(registry[1])
    /\ b = empty_chord(registry[1])
    /\ third = empty_chord(registry[1])
    /\ result = Return(TRUE)
    /\ warnings = 0
    /\ write_warnings = TRUE
    /\ tokens = <<>>
    /\ config = EnglishSystem

NextToggle ==
    \/ ToggleChord
    \/ ToggleStr

SpecToggle == InitToggle /\ [][NextToggle]_vars

---------------------------------------------------------------------------
(* SpecParse: System.parse of any text over a small alphabet, and of the   *)
(* text with the name of an unordered key put in.                          *)

MaxTextLen == 3

\* a left key, an optional replacement, the unordered key, a middle key,
\* the separator and a right key
ParseAlphabet == {"S", "Z", "#", "A", "-", "F"}

RECURSIVE TextsUpTo(_)
TextsUpTo(n) ==
    IF n = 0 THEN {""}
    ELSE LET shorter == TextsUpTo(n - 1)
         IN  shorter \cup {t \o ch : t \in shorter, ch \in ParseAlphabet}

ParseTexts == TextsUpTo(MaxTextLen)

\* the caller puts the name of an unordered key into a text that
\* parsed, at any place, and parses the new text
Insert ==
    /\ op = "parse"
    /\ result.ok
    /\ Len(text) <= MaxTextLen
    /\ \E u \in to_set(registry[1].unordered_keys) : \E p \in 0..Len(text) :
           /\ text' = SubSeq(text, 1, p) \o remove_hyphens(u) \o SubSeq(text, p + 1, Len(text))
           /\ third' = chord_of(registry[1], {u})
    /\ chord' = result.val
    /\ op' = "insert"
    /\ result' = parse(registry[1], text')
    /\ warnings' = warn(IF result'.ok /\ result'.warned THEN 1 ELSE 0)
    /\ UNCHANGED <<registry, a, b, dictA, dictB, write_warnings, tokens, config, value, default, extra>>

InitParse ==
    /\ InitExtra
    /\ InitRegistry
    /\ op = "init"
    /\ text \in ParseTexts
    /\ write_warnings \in BOOLEAN
    /\ chord = empty_chord(registry[1])
    /\ a = empty_chord(registry[1])
    /\ b = empty_chord(registry[1])
    /\ third = empty_chord(registry[1])
    /\ dictA = <<>>
    /\ dictB = <<>>
    /\ result = Return(TRUE)
    /\ warnings = 0
    /\ tokens = <<>>
    /\ value = ""
    /\ default = ""
    /\ config = EnglishSystem

NextParse ==
    \/ Parse
    \/ Insert

SpecParse == InitParse /\ [][NextParse]_vars

---------------------------------------------------------------------------
(* SpecSystem: the construction of a registry of a subclass of System      *)
(* whose class attributes and constructor arguments come to `config`       *)
(* (System itself has no sys_key_order, and its constructor reads it       *)
(* whatever the arguments), and the use of the registry constructed.       *)

\* key orders: the separator after or before the middle key, or missing
KeyOrders ==
    { <<"S-", "T-", "A", "-", "-F">>,
      <<"S-", "T-", "-", "A", "-F">>,
      <<"S-", "T-", "A", "-F">> }

\* no key, a real key, a name that is no key
KeyLists == { <<>>, <<"A">>, <<"X">> }

\* no rule; a rule in order; out of order; of a key that is no key; in order
\* only if A is unordered; of a key twice
OptionalTables ==
    { <<>>,
      <<Rule("D-", <<"S-", "T-">>)>>,
      <<Rule("D-", <<"T-", "S-">>)>>,
      <<Rule("D-", <<"S-", "X-">>)>>,
      <<Rule("D-", <<"A", "S-">>)>>,
      <<Rule("D-", <<"S-", "S-">>)>> }

MandatoryTables ==
    { <<>>,
      <<Rule("5", <<"T-", "A">>)>>,
      <<Rule("5", <<"A", "T-">>)>>,
      <<Rule("5", <<"-Q">>)>> }

Configs ==
    { [ name |-> "t", key_order |-> ko, unordered_keys |-> u, combining_keys |-> c,
        optional_replacements |-> o, mandatory_replacements |-> m ] :
        ko \in KeyOrders, u \in KeyLists, c \in KeyLists,
        o \in OptionalTables, m \in MandatoryTables }

SystemTexts == {"ST", "-F"}

SystemKeySets == { {"S-", "T-"}, {"-F"}, {"T-"} }

\* the construction
Construct ==
    /\ op = "init"
    /\ op' = "System"
    /\ result' = System(1, config)
    /\ registry' = (IF result'.ok THEN <<result'.val>> ELSE <<>>)
    /\ warnings' = 0
    /\ UNCHANGED <<a, b, third, chord, text, dictA, dictB, write_warnings, tokens, config, value, default, extra>>

\* registry.parse(t)
SystemParse ==
    /\ registry /= <<>>
    /\ \E t \in SystemTexts : text' = t
    /\ op' = "parse"
    /\ result' = parse(registry[1], text')
    /\ chord' = (IF result'.ok THEN result'.val ELSE chord)
    /\ warnings' = warn(IF result'.ok /\ result'.warned THEN 1 ELSE 0)
    /\ UNCHANGED <<registry, a, b, third, dictA, dictB, write_warnings, tokens, config, value, default, extra>>

\* registry.chord(*x).combine(registry.chord(*y))
SystemCombine ==
    /\ registry /= <<>>
    /\ \E x \in SystemKeySets : \E y \in SystemKeySets :
           /\ a' = chord_of(registry[1], x)
           /\ b' = chord_of(registry[1], y)
    /\ op' = "combine"
    /\ result' = combine(a', b')
    /\ chord' = (IF result'.ok THEN result'.val ELSE chord)
    /\ warnings' = 0
    /\ UNCHANGED <<registry, third, text, dictA, dictB, write_warnings, tokens, config, value, default, extra>>

\* the plover_str of the chord returned last
SystemRender ==
    /\ op \in {"parse", "combine"}
    /\ result.ok
    /\ op' = "plover_str"
    /\ text' = plover_str(chord)
    /\ result' = Return(text')
    /\ warnings' = 0
    /\ UNCHANGED <<registry, a, b, third, chord, dictA, dictB, write_warnings, tokens, config, value, default, extra>>

InitSystem ==
    /\ InitExtra
    /\ registry = <<>>
    /\ config \in Configs
    /\ op = "init"
    /\ a = [system |-> 1, keys |-> {}]
    /\ b = [system |-> 1, keys |-> {}]
    /\ third = [system |-> 1, keys |-> {}]
    /\ chord = [system |-> 1, keys |-> {}]
    /\ text = ""
    /\ dictA = <<>>
    /\ dictB = <<>>
    /\ result = Return(TRUE)
    /\ warnings = 0
    /\ write_warnings = TRUE
    /\ tokens = <<>>
    /\ value = ""
    /\ default = ""

NextSystem ==
    \/ Construct
    \/ SystemParse
    \/ SystemCombine
    \/ SystemRender

SpecSystem == InitSystem /\ [][NextSystem]_vars

---------------------------------------------------------------------------
(* SpecConstruct: Dictionary(pairs), the construction from a sequence of   *)
(* pairs, a key being a chord of either registry object or a tuple.        *)

\* a sequence of pairs has at most MaxPairs pairs
MaxPairs == 3

\* the pairs as the items of an iterable
pair_items(ps) == [j \in 1..Len(ps) |-> Return(ps[j])]

\* keys of both kinds: chords of both registry objects, and tuples
PairKeys ==
    { Chord(registry[1], {"S-"}), Chord(registry[1], {"#"}), Chord(registry[2], {"S-"}),
      [tuple |-> <<Chord(registry[1], {"S-"})>>] }

RECURSIVE PairsUpTo(_)
PairsUpTo(n) ==
    IF n = 0 THEN {<<>>}
    ELSE LET shorter == PairsUpTo(n - 1)
         IN  shorter \cup {Append(ps, <<k, v>>) : ps \in shorter, k \in PairKeys, v \in DictValues}

\* Dictionary(pairs)
NewDictionary ==
    /\ op' = "Dictionary"
    /\ result' = Dictionary(pair_items(pairs))
    /\ warnings' = warn(result'.warnings)
    /\ UNCHANGED <<registry, a, b, third, chord, text, dictA, dictB,
                   write_warnings, tokens, config, value, default, extra>>

InitConstruct ==
    /\ InitRegistry
    /\ op = "init"
    /\ pairs \in PairsUpTo(MaxPairs)
    /\ write_warnings \in BOOLEAN
    /\ a = empty_chord(registry[1])
    /\ b = empty_chord(registry[1])
    /\ third = empty_chord(registry[1])
    /\ chord = empty_chord(registry[1])
    /\ text = ""
    /\ dictA = <<>>
    /\ dictB = <<>>
    /\ result = Return(TRUE)
    /\ warnings = 0
    /\ tokens = <<>>
    /\ config = EnglishSystem
    /\ value = ""
    /\ default = ""
    /\ listed = [list |-> <<>>]
    /\ item = <<>>
    /\ keyFn = "identity"
    /\ valueFn = "identity"
    /\ heap = <<>>
    /\ pc = [at |-> "idle"]
    /\ parse_left = ""
    /\ parse_out = <<>>
    /\ unordered_done = TRUE

NextConstruct == NewDictionary

SpecConstruct == InitConstruct /\ [][NextConstruct]_vars

---------------------------------------------------------------------------
(* SpecCombinators: the difference, the membership test, map and the       *)
(* reverse lookups, one of them applied to the Dictionary dictA (they      *)
(* leave no state behind for the next), and the membership test applied    *)
(* to the difference.                                                      *)

\* Python's ==, between keys: Chord.__eq__ compares the keys of two chords
\* and is NotImplemented for a tuple; tuples compare item by item
key_eq(k1, k2) ==
    IF is_chord(k1) /\ is_chord(k2) THEN chord_eq(k1, k2)
    ELSE IF ~is_chord(k1) /\ ~is_chord(k2)
    THEN /\ Len(k1.tuple) = Len(k2.tuple)
         /\ \A j \in 1..Len(k1.tuple) : chord_eq(k1.tuple[j], k2.tuple[j])
    ELSE FALSE

\* `k in other` for a list: any item equal to k
in_key_list(k, other) == \E j \in 1..Len(other) : key_eq(other[j], k)

\* Dictionary.__contains__
dictionary_contains(d, k) ==
    IF is_chord(k) /\ dict_has(d, [tuple |-> <<k>>]) THEN TRUE
    ELSE IF ~is_chord(k) /\ Len(k.tuple) = 1 /\ dict_has(d, k.tuple[1]) THEN TRUE
    ELSE dict_has(d, k)

\* hasattr(other, "__iter__"): a list of keys, [list |-> keys], has it, a
\* chord has not
has_iter(other) == ~is_chord(other)

\* Dictionary.__sub__: NotImplemented makes the `-` raise TypeError
dict_sub(self, other) ==
    IF ~has_iter(other) THEN [ok |-> FALSE, err |-> "TypeError", warnings |-> 0]
    ELSE LET missing == \E j \in 1..Len(other.list) :
                            ~dictionary_contains(self, other.list[j])
             kept == SelectSeq(self, LAMBDA e : ~in_key_list(e.key, other.list))
             d == Dictionary(dict_items(kept))
         IN  [d EXCEPT !.warnings = @ + (IF missing THEN 1 ELSE 0)]

\* Dictionary.keys_for giving every key: C24 tells it from the source's
keys_for_any(d, v) == [j \in 1..Len(d) |-> d[j].key]

\* Dictionary.keys_for
keys_for(d, v) ==
    LET found == SelectSeq(d, LAMBDA e : e.value = v)
    IN  [j \in 1..Len(found) |-> found[j].key]

\* to_multi_chord (the function of the module)
to_multi_chord(k) == IF is_chord(k) THEN <<k>> ELSE k.tuple

\* Dictionary.plover_reverse_lookup
plover_reverse_lookup(d, output) ==
    LET found == keys_for(d, output)
    IN  [j \in 1..Len(found) |->
            LET chords == to_multi_chord(found[j])
            IN  [c \in 1..Len(chords) |-> plover_str(chords[c])]]

\* the `keys` argument of map applied to a key: omitted (lambda x: x),
\* to_multi_chord, or add(addend), which is `addend + x`
apply_keyFn(fn, addend, k) ==
    CASE fn = "identity" -> Return(k)
      [] fn = "to_multi_chord" -> Return([tuple |-> to_multi_chord(k)])
      [] fn = "add" -> IF is_chord(k) THEN chord_add(addend, k) ELSE Raise("TypeError")

\* the `values` argument: omitted, or suffix("x")
apply_valueFn(fn, v) ==
    CASE fn = "identity" -> v
      [] fn = "suffix" -> v \o "x"

\* the generator of map: (keys(k), values(v)) for k, v in self
map_items(self, kf, addend, vf) ==
    [ j \in 1..Len(self) |->
        LET k == apply_keyFn(kf, addend, self[j].key)
        IN  IF k.ok THEN Return(<<k.val, apply_valueFn(vf, self[j].value)>>)
            ELSE Raise(k.err) ]

\* map with the values left alone: C25 tells it from the source's
dict_map_keys(self, kf, addend, vf) == Dictionary(map_items(self, kf, addend, "identity"))

\* Dictionary.map
dict_map(self, kf, addend, vf) == Dictionary(map_items(self, kf, addend, vf))

\* keys of every kind: chords of both registry objects, tuples of no, one
\* and two chords
CombinatorKeys ==
    { empty_chord(registry[1]), Chord(registry[1], {"S-"}), Chord(registry[1], {"#"}),
      Chord(registry[2], {"S-"}),
      [tuple |-> <<>>],
      [tuple |-> <<Chord(registry[1], {"S-"})>>],
      [tuple |-> <<Chord(registry[1], {"S-"}), Chord(registry[1], {"#"})>>] }

CombinatorEntries == {Entry(k, v) : k \in CombinatorKeys, v \in DictValues}

RECURSIVE CombinatorDictsUpTo(_)
CombinatorDictsUpTo(n) ==
    IF n = 0 THEN {<<>>}
    ELSE LET shorter == CombinatorDictsUpTo(n - 1)
         IN  shorter \cup {Append(d, e) : d \in shorter, e \in CombinatorEntries}

CombinatorDicts ==
    {d \in CombinatorDictsUpTo(MaxDictLen) :
        \A i \in 1..Len(d) : \A j \in 1..Len(d) : i /= j => ~same_key(d[i].key, d[j].key)}

\* what is handed to `-`: lists of a key of dictA's kind, of its
\* one-element tuple, of the chord of the other registry object, of a key
\* twice, of a key that no Dictionary here holds, and a chord, which is no
\* list
Listed ==
    { [list |-> <<>>],
      [list |-> <<Chord(registry[1], {"S-"})>>],
      [list |-> <<[tuple |-> <<Chord(registry[1], {"S-"})>>]>>],
      [list |-> <<Chord(registry[2], {"S-"})>>],
      [list |-> <<Chord(registry[1], {"#"}), Chord(registry[1], {"#"})>>],
      [list |-> <<Chord(registry[1], {"T-"})>>],
      [list |-> <<Chord(registry[1], {"S-"}), Chord(registry[1], {"T-"})>>],
      Chord(registry[1], {"S-"}) }

CombinatorFrame ==
    UNCHANGED <<registry, a, b, third, text, dictA, write_warnings, tokens, config,
                default, pairs, heap, pc, parse_left, parse_out, unordered_done>>

\* dictA - listed
Sub ==
    /\ op = "init"
    /\ \E l \in Listed : listed' = l
    /\ op' = "sub"
    /\ result' = dict_sub(dictA, listed')
    /\ dictB' = (IF result'.ok THEN result'.val ELSE <<>>)
    /\ warnings' = warn(result'.warnings)
    /\ UNCHANGED <<item, chord, value, keyFn, valueFn>>
    /\ CombinatorFrame

\* k in (dictA - listed), for a listed key k
Contains ==
    /\ op = "sub"
    /\ result.ok
    /\ \E j \in 1..Len(listed.list) : item' = listed.list[j]
    /\ op' = "contains"
    /\ result' = Return(dictionary_contains(dictB, item'))
    /\ warnings' = 0
    /\ UNCHANGED <<listed, dictB, chord, value, keyFn, valueFn>>
    /\ CombinatorFrame

\* dictA.keys_for(value)
KeysFor ==
    /\ op = "init"
    /\ \E v \in DictValues : value' = v
    /\ op' = "keys_for"
    /\ result' = Return(keys_for(dictA, value'))
    /\ warnings' = 0
    /\ UNCHANGED <<listed, dictB, item, chord, keyFn, valueFn>>
    /\ CombinatorFrame

\* dictA.plover_reverse_lookup(value)
PloverReverseLookup ==
    /\ op = "init"
    /\ \E v \in DictValues : value' = v
    /\ op' = "plover_reverse_lookup"
    /\ result' = Return(plover_reverse_lookup(dictA, value'))
    /\ warnings' = 0
    /\ UNCHANGED <<listed, dictB, item, chord, keyFn, valueFn>>
    /\ CombinatorFrame

\* dictA.map(keys=keyFn, values=valueFn), add's chord being `chord`
Map ==
    /\ op = "init"
    /\ \E kf \in {"identity", "to_multi_chord", "add"} : keyFn' = kf
    /\ \E vf \in {"identity", "suffix"} : valueFn' = vf
    /\ chord' = Chord(registry[1], {"#"})
    /\ op' = "map"
    /\ result' = dict_map(dictA, keyFn', chord', valueFn')
    /\ warnings' = warn(result'.warnings)
    /\ UNCHANGED <<listed, dictB, item, value>>
    /\ CombinatorFrame

InitCombinators ==
    /\ InitRegistry
    /\ op = "init"
    /\ dictA \in CombinatorDicts
    /\ dictB = <<>>
    /\ a = empty_chord(registry[1])
    /\ b = empty_chord(registry[1])
    /\ third = empty_chord(registry[1])
    /\ chord = empty_chord(registry[1])
    /\ text = ""
    /\ result = Return(TRUE)
    /\ warnings = 0
    /\ write_warnings = TRUE
    /\ tokens = <<>>
    /\ config = EnglishSystem
    /\ value = ""
    /\ default = ""
    /\ InitExtra

NextCombinators ==
    \/ Sub
    \/ Contains
    \/ KeysFor
    \/ PloverReverseLookup
    \/ Map

SpecCombinators == InitCombinators /\ [][NextCombinators]_vars

---------------------------------------------------------------------------
(* SpecHeap: the Dictionary objects.  A Dictionary holds a dict object,    *)
(* heap[ref]; the operands' dicts are heap[1] and heap[2], and dictA and   *)
(* dictB are the entries they had when the operands were made.  One        *)
(* combinator is applied to the operands, and then a key is assigned in    *)
(* the Dictionary it returned.                                             *)

\* Dictionary.__init__ on a dict: `self.dict = iterable_or_dict`, the
\* Dictionary holds the dict object it was given
dictionary_of_dict(h, ref) == [ok |-> TRUE, heap |-> h, ref |-> ref, warnings |-> 0]

\* Dictionary.__init__ on an iterable: `self.dict = {}`, a new dict object,
\* filled with r.val, the outcome r of going through the iterable
dictionary_of_items(h, r) ==
    IF r.ok
    THEN [ok |-> TRUE, heap |-> Append(h, r.val), ref |-> Len(h) + 1, warnings |-> r.warnings]
    ELSE [ok |-> FALSE, err |-> r.err, heap |-> h, warnings |-> r.warnings]

\* copy as Dictionary(self.dict): C23 tells it from the source's
dict_copy_shared(h, self) == dictionary_of_dict(h, self)

\* Dictionary.copy: Dictionary(self.dict.items())
dict_copy(h, self) == dictionary_of_items(h, Dictionary(dict_items(h[self])))

\* with_empty_chord, the registry inferred: the one given, or that of the
\* first key, `next(i.system for i in self.keys())`
inferred_system(d, sys) ==
    IF sys /= "None" THEN Return(sys)
    ELSE IF d = <<>> THEN Raise("ValueError")
    ELSE IF ~is_chord(d[1].key) THEN Raise("AttributeError")
    ELSE Return(d[1].key.system)

\* Dictionary.with_empty_chord: self + Dictionary({empty_chord: default});
\* the dict display is a dict object of its own
with_empty_chord(h, self, dflt, sys) ==
    LET inferred == inferred_system(h[self], sys)
    IN  IF ~inferred.ok
        THEN [ok |-> FALSE, err |-> inferred.err, heap |-> h, warnings |-> 0]
        ELSE LET display == <<Entry(empty_chord(registry[inferred.val]), dflt)>>
                 other == dictionary_of_dict(Append(h, display), Len(h) + 1)
             IN  dictionary_of_items(other.heap, dict_add(h[self], other.heap[other.ref]))

\* Dictionary.__setitem__: self.dict[key] = value
dictionary_setitem(h, self, k, v) == [h EXCEPT ![self] = dict_set(@, k, v)]

\* the operands: Dictionaries of chords of one registry object
HeapDicts ==
    { <<>>,
      <<Entry(Chord(registry[1], {"S-"}), "1")>>,
      <<Entry(Chord(registry[1], {"#"}), "1")>>,
      <<Entry(empty_chord(registry[1]), "2")>>,
      <<Entry(Chord(registry[1], {"S-"}), "1"), Entry(Chord(registry[1], {"#"}), "2")>> }

HeapListed ==
    { [list |-> <<Chord(registry[1], {"S-"})>>],
      [list |-> <<Chord(registry[1], {"T-"})>>] }

HeapFrame ==
    UNCHANGED <<registry, a, b, third, text, dictA, dictB, write_warnings, tokens, config,
                pairs, pc, parse_left, parse_out, unordered_done>>

\* the combinator named `name` has returned r: its Dictionary, or has raised
HeapOp(name, r) ==
    /\ op = "init"
    /\ op' = name
    /\ heap' = r.heap
    /\ result' = (IF r.ok THEN [ok |-> TRUE, ref |-> r.ref] ELSE Raise(r.err))
    /\ warnings' = warn(r.warnings)
    /\ HeapFrame

\* A + B
HeapAdd ==
    /\ HeapOp("add", dictionary_of_items(heap, dict_add(heap[1], heap[2])))
    /\ UNCHANGED <<listed, item, chord, value, default, keyFn, valueFn>>

\* A - listed
HeapSub ==
    /\ \E l \in HeapListed : listed' = l
    /\ HeapOp("sub", dictionary_of_items(heap, dict_sub(heap[1], listed')))
    /\ UNCHANGED <<item, chord, value, default, keyFn, valueFn>>

\* A.map(keys=keyFn, values=valueFn)
HeapMap ==
    /\ \E kf \in {"identity", "add"} : keyFn' = kf
    /\ \E vf \in {"identity", "suffix"} : valueFn' = vf
    /\ chord' = Chord(registry[1], {"#"})
    /\ HeapOp("map", dictionary_of_items(heap, dict_map(heap[1], keyFn', chord', valueFn')))
    /\ UNCHANGED <<listed, item, value, default>>

\* A * B
HeapMul ==
    /\ HeapOp("mul", dictionary_of_items(heap, dict_mul(heap[1], heap[2])))
    /\ UNCHANGED <<listed, item, chord, value, default, keyFn, valueFn>>

\* A.with_empty_chord(default)
WithEmptyChord ==
    /\ \E d \in DictValues : default' = d
    /\ HeapOp("with_empty_chord", with_empty_chord(heap, 1, default', "None"))
    /\ UNCHANGED <<listed, item, chord, value, keyFn, valueFn>>

\* A.copy()
Copy ==
    /\ HeapOp("copy", dict_copy(heap, 1))
    /\ UNCHANGED <<listed, item, chord, value, default, keyFn, valueFn>>

\* returned[item] = value, on the Dictionary the combinator returned
SetItem ==
    /\ op \notin {"init", "setitem"}
    /\ result.ok
    /\ \E k \in {Chord(registry[1], {"S-"}), Chord(registry[1], {"#"}), empty_chord(registry[1])} :
           item' = k
    /\ \E v \in DictValues : value' = v
    /\ op' = "setitem"
    /\ heap' = dictionary_setitem(heap, result.ref, item', value')
    /\ warnings' = 0
    /\ UNCHANGED <<result, listed, chord, default, keyFn, valueFn>>
    /\ HeapFrame

InitHeap ==
    /\ InitRegistry
    /\ op = "init"
    /\ dictA \in HeapDicts
    /\ dictB \in HeapDicts
    /\ heap = <<dictA, dictB>>
    /\ a = empty_chord(registry[1])
    /\ b = empty_chord(registry[1])
    /\ third = empty_chord(registry[1])
    /\ chord = empty_chord(registry[1])
    /\ text = ""
    /\ result = Return(TRUE)
    /\ warnings = 0
    /\ write_warnings = TRUE
    /\ tokens = <<>>
    /\ config = EnglishSystem
    /\ value = ""
    /\ default = ""
    /\ pairs = <<>>
    /\ listed = [list |-> <<>>]
    /\ item = <<>>
    /\ keyFn = "identity"
    /\ valueFn = "identity"
    /\ pc = [at |-> "idle"]
    /\ parse_left = ""
    /\ parse_out = <<>>
    /\ unordered_done = TRUE

NextHeap ==
    \/ HeapAdd
    \/ HeapSub
    \/ HeapMap
    \/ HeapMul
    \/ WithEmptyChord
    \/ Copy
    \/ SetItem

SpecHeap == InitHeap /\ [][NextHeap]_vars

---------------------------------------------------------------------------
(* SpecExport: a Dictionary of one registry object's chords, or of tuples  *)
(* of them, is exported, and an entry is looked up by the texts of its     *)
(* key.                                                                    *)

\* "/".join(list)
RECURSIVE join_strokes(_)
join_strokes(l) ==
    IF l = <<>> THEN ""
    ELSE IF Len(l) = 1 THEN l[1]
    ELSE l[1] \o "/" \o join_strokes(Tail(l))

\* the texts to_plover_str joins: i.plover_str for i in to_multi_chord(value)
plover_strs(k) ==
    LET chords == to_multi_chord(k)
    IN  [c \in 1..Len(chords) |-> plover_str(chords[c])]

\* to_plover_str
to_plover_str(k) == join_strokes(plover_strs(k))

\* `d[k] = v` for a dict of str keys
str_dict_set(d, k, v) ==
    IF \E j \in 1..Len(d) : d[j].key = k
    THEN [j \in 1..Len(d) |-> IF d[j].key = k THEN Entry(k, v) ELSE d[j]]
    ELSE Append(d, Entry(k, v))

\* Dictionary.to_plover_dict: {to_plover_str(k): v for k, v in self}, from
\* the entry at position j on
RECURSIVE to_plover_dict_from(_, _, _)
to_plover_dict_from(self, j, acc) ==
    IF j > Len(self) THEN acc
    ELSE LET n == str_dict_set(acc, to_plover_str(self[j].key), self[j].value)
         IN  CASE computed(n) -> to_plover_dict_from(self, j + 1, n)

to_plover_dict(self) == to_plover_dict_from(self, 1, <<>>)

\* chords of one registry object: the empty chord, a left key, a left and a
\* right key, the number key with a right key, and with two middle keys
ExportChordKeys ==
    { empty_chord(registry[1]),
      Chord(registry[1], {"S-"}),
      Chord(registry[1], {"S-", "-F"}),
      Chord(registry[1], {"#", "-B"}),
      Chord(registry[1], {"#", "A", "*"}) }

ExportTupleKeys ==
    { [tuple |-> <<>>],
      [tuple |-> <<Chord(registry[1], {"S-"})>>],
      [tuple |-> <<Chord(registry[1], {"S-"}), Chord(registry[1], {"#"})>>],
      [tuple |-> <<Chord(registry[1], {"S-", "-F"}), Chord(registry[1], {"#", "-B"})>>] }

ExportDicts == DictsOver(ExportChordKeys) \cup DictsOver(ExportTupleKeys)

ExportFrame ==
    UNCHANGED <<registry, a, b, third, chord, text, dictA, dictB, write_warnings, config,
                default, pairs, listed, keyFn, valueFn, heap, pc, parse_left, parse_out,
                unordered_done>>

\* dictA.to_plover_dict()
ToPloverDict ==
    /\ op = "init"
    /\ op' = "to_plover_dict"
    /\ result' = Return(to_plover_dict(dictA))
    /\ warnings' = 0
    /\ UNCHANGED <<item, tokens, value>>
    /\ ExportFrame

\* dictA.plover_lookup(tokens, system=system), the tokens being the texts of
\* the chords of item, the key of an entry (item, value) of dictA
ExportLookup ==
    /\ op = "init"
    /\ \E j \in 1..Len(dictA) :
           /\ item' = dictA[j].key
           /\ value' = dictA[j].value
    /\ tokens' = plover_strs(item')
    /\ op' = "export_lookup"
    /\ result' = plover_lookup(dictA, tokens', registry[1])
    /\ warnings' = warn(result'.warnings)
    /\ ExportFrame

InitExport ==
    /\ InitRegistry
    /\ op = "init"
    /\ dictA \in ExportDicts
    /\ dictB = <<>>
    /\ a = empty_chord(registry[1])
    /\ b = empty_chord(registry[1])
    /\ third = empty_chord(registry[1])
    /\ chord = empty_chord(registry[1])
    /\ text = ""
    /\ result = Return(TRUE)
    /\ warnings = 0
    /\ write_warnings = TRUE
    /\ tokens = <<>>
    /\ config = EnglishSystem
    /\ value = ""
    /\ default = ""
    /\ InitExtra

NextExport ==
    \/ ToPloverDict
    \/ ExportLookup

SpecExport == InitExport /\ [][NextExport]_vars

---------------------------------------------------------------------------
(* SpecScan: System.parse run one step at a time.  pc is where the scan    *)
(* stands: pc.stage is 1 before the hyphen and 2 after it, pc.k the        *)
(* position of try_consume_all's `for i in keys` (past the end of keys in  *)
(* the call of try_consume_unordered that follows try_consume_all), pc.u   *)
(* the position of try_consume_unordered's `for i in all_unordered`, and   *)
(* pc.all_unordered the local of that name.                                *)
(* parse_left, parse_out and unordered_done are the locals left, out and   *)
(* done.                                                                   *)

MaxScanLen == 2

\* the texts handed to the stepwise parser
ScanTexts == TextsUpTo(MaxScanLen)

\* the keys of the two calls of try_consume_all
scan_keys(sys, stage) ==
    IF stage = 1
    THEN sys.left_pseudo_keys \o sys.left_middle_pseudo_keys
    ELSE sys.right_middle_pseudo_keys \o sys.right_pseudo_keys

\* `while True:` that never returns: C28 tells it from the source's
drain_returns_never(done) == FALSE

\* `if done: return`
drain_returns(done) == done

ScanFrame ==
    UNCHANGED <<registry, a, b, third, chord, text, dictA, dictB, write_warnings, tokens,
                config, value, default, pairs, listed, item, keyFn, valueFn, heap>>

\* the locals after try_consume_one(pseudo_key)
ConsumeOne(pseudo_key) ==
    LET t == try_consume_one(registry[1],
                             [left |-> parse_left, out |-> parse_out, hit |-> FALSE],
                             pseudo_key)
    IN  /\ parse_left' = t.left
        /\ parse_out' = t.out
        /\ unordered_done' = IF pc.at = "drain" /\ t.hit THEN FALSE ELSE unordered_done

\* `left = chord; out = []`, `all_unordered = (...)` and the first call of
\* try_consume_all
ScanStart ==
    /\ op = "init"
    /\ pc.at = "idle"
    /\ op' = "scan"
    /\ parse_left' = text
    /\ parse_out' = <<>>
    /\ pc' = [ at |-> "all", stage |-> 1, k |-> 1, u |-> 1,
               all_unordered |-> all_unordered(registry[1]) ]
    /\ UNCHANGED <<unordered_done, result, warnings>>
    /\ ScanFrame

\* `for i in keys:` takes the next key and calls try_consume_unordered, or
\* is over and the call of try_consume_unordered after it begins; either
\* way `while True: done = True`
AllNext ==
    /\ pc.at = "all"
    /\ pc' = [pc EXCEPT !.at = "drain", !.u = 1]
    /\ unordered_done' = TRUE
    /\ UNCHANGED <<op, parse_left, parse_out, result, warnings>>
    /\ ScanFrame

\* `for i in all_unordered: if try_consume_one(i): done = False`
DrainStep ==
    /\ pc.at = "drain"
    /\ pc.u <= Len(pc.all_unordered)
    /\ ConsumeOne(pc.all_unordered[pc.u])
    /\ pc' = [pc EXCEPT !.u = pc.u + 1]
    /\ UNCHANGED <<op, result, warnings>>
    /\ ScanFrame

\* the for loop is over and done is unset: the next pass, `done = True`
DrainAgain ==
    /\ pc.at = "drain"
    /\ pc.u > Len(pc.all_unordered)
    /\ ~drain_returns(unordered_done)
    /\ pc' = [pc EXCEPT !.u = 1]
    /\ unordered_done' = TRUE
    /\ UNCHANGED <<op, parse_left, parse_out, result, warnings>>
    /\ ScanFrame

\* `if done: return`: to try_consume_one(i) of try_consume_all, or, after
\* try_consume_all, to the hyphen or to the end of the scan
DrainReturn ==
    /\ pc.at = "drain"
    /\ pc.u > Len(pc.all_unordered)
    /\ drain_returns(unordered_done)
    /\ pc' = [pc EXCEPT !.at =
                  IF pc.k <= Len(scan_keys(registry[1], pc.stage)) THEN "one"
                  ELSE IF pc.stage = 1 THEN "hyphen"
                  ELSE "scanned"]
    /\ UNCHANGED <<op, parse_left, parse_out, unordered_done, result, warnings>>
    /\ ScanFrame

\* try_consume_one(i) of try_consume_all
One ==
    /\ pc.at = "one"
    /\ ConsumeOne(scan_keys(registry[1], pc.stage)[pc.k])
    /\ pc' = [pc EXCEPT !.at = "all", !.k = pc.k + 1]
    /\ UNCHANGED <<op, result, warnings>>
    /\ ScanFrame

\* `if left.startswith("-"): left = left[len("-"):]` and the second call
\* of try_consume_all
Hyphen ==
    /\ pc.at = "hyphen"
    /\ parse_left' = skip_hyphen([left |-> parse_left, out |-> parse_out, hit |-> FALSE]).left
    /\ pc' = [pc EXCEPT !.at = "all", !.stage = 2, !.k = 1]
    /\ UNCHANGED <<op, parse_out, unordered_done, result, warnings>>
    /\ ScanFrame

\* the scan is over: parse raises, or returns the chord after the warning
\* about steno order
ScanReturn ==
    /\ pc.at = "scanned"
    /\ result' = parse_scanned(registry[1], text,
                               [left |-> parse_left, out |-> parse_out, hit |-> FALSE])
    /\ warnings' = warn(IF result'.ok /\ result'.warned THEN 1 ELSE 0)
    /\ pc' = [pc EXCEPT !.at = "returned"]
    /\ op' = "parse"
    /\ UNCHANGED <<parse_left, parse_out, unordered_done>>
    /\ ScanFrame

InitScan ==
    /\ InitRegistry
    /\ op = "init"
    /\ text \in ScanTexts
    /\ write_warnings = TRUE
    /\ chord = empty_chord(registry[1])
    /\ a = empty_chord(registry[1])
    /\ b = empty_chord(registry[1])
    /\ third = empty_chord(registry[1])
    /\ dictA = <<>>
    /\ dictB = <<>>
    /\ result = Return(TRUE)
    /\ warnings = 0
    /\ tokens = <<>>
    /\ value = ""
    /\ default = ""
    /\ config = EnglishSystem
    /\ InitExtra

NextScan ==
    \/ ScanStart
    \/ AllNext
    \/ DrainStep
    \/ DrainAgain
    \/ DrainReturn
    \/ One
    \/ Hyphen
    \/ ScanReturn

SpecScan == InitScan /\ [][NextScan]_vars

\* the interpreter runs parse on while it has a step to take
SpecScanFair == SpecScan /\ WF_vars(NextScan)

Init == InitChord
Next == NextChord
Spec == SpecChord

---------------------------------------------------------------------------
(* The claims.  C3, C4, C6, C7 and C8 are stated of SpecChord, C5 of       *)
(* SpecText, C1, C2, C9 and C10 of SpecDict.                               *)

\* the entries of dictA whose key is also a key of dictB
Shared == {i \in 1..Len(dictA) : dict_has(dictB, dictA[i].key)}

\* those among them that dictB maps to another value
Conflicting == {i \in Shared : dict_get(dictB, dictA[i].key) /= dictA[i].value}

Pairs == (1..Len(dictA)) \X (1..Len(dictB))
PairPlace(p) == (p[1] - 1) * Len(dictB) + p[2]
PairKey(p) == combine(dictA[p[1]].key, dictB[p[2]].key)
PairValue(p) == dictA[p[1]].value \o dictB[p[2]].value

\* two distinct pairs whose keys combine to one key
Collide(p, q) ==
    /\ p /= q
    /\ PairKey(p).ok
    /\ PairKey(q).ok
    /\ same_key(PairKey(p).val, PairKey(q).val)

UnequalCollision ==
    \E p \in Pairs : \E q \in Pairs : Collide(p, q) /\ PairValue(p) /= PairValue(q)

C3_CombineFailsIffNoncombiningOverlap ==
    (op = "combine" /\ same_system(a, b)) =>
        /\ ~result.ok <=> (a.keys \cap b.keys) \ to_set(registry[a.system].combining_keys) /= {}
        /\ result.ok => result.val = [system |-> a.system, keys |-> a.keys \cup b.keys]

\* a and b share a combining key, and nothing else
C3_Witness ==
    /\ op = "combine"
    /\ same_system(a, b)
    /\ a.keys \cap b.keys /= {}
    /\ a.keys /= b.keys
    /\ result.ok

\* two outcomes agree: both raise, or both return, and equal chords
SameOutcome(r1, r2) == r1.ok = r2.ok /\ (r1.ok => chord_eq(r1.val, r2.val))

\* C4: for chords a, b, c of one registry, combine(a, b) and combine(b, a)
\* fail together and otherwise return equal chords, and so do
\* combine(combine(a, b), c) and combine(a, combine(b, c)).
C4_CombineCommutativeAssociative ==
    /\ (op = "combine" /\ same_system(a, b)) => SameOutcome(result, combine(b, a))
    /\ (op = "add_add" /\ same_system(a, b) /\ same_system(b, third)) =>
           SameOutcome(result,
                       LET bc == chord_add(b, third)
                       IN  IF bc.ok THEN chord_add(a, bc.val) ELSE bc)

C4_Witness ==
    /\ op = "add_add"
    /\ same_system(a, b)
    /\ same_system(b, third)
    /\ a.keys /= {} /\ b.keys /= {} /\ third.keys /= {}
    /\ a.keys \cap third.keys /= {}
    /\ result.ok

\* C5, as claimed: for every chord x of the English registry, parsing
\* plover_str(x) succeeds and the parsed chord renders to the same text.
C5_RoundTrip ==
    (op = "parse" /\ text = plover_str(chord)) =>
        /\ result.ok
        /\ plover_str(result.val) = text

BinaryOps ==
    { "overlaps", "overlaps_noncombining", "is_superset", "mask",
      "lax_combine", "combine", "lax_remove", "remove" }

\* C6, as claimed: every binary operation between two chords fails when the
\* operands belong to different registry objects.
C6_DifferentRegistryFails ==
    (op \in BinaryOps /\ ~same_system(a, b)) => ~result.ok

\* C7, as claimed: two chords with the same key set compare equal, have
\* equal hashes, and either one finds the other's entry in a dict.
C7_SameKeysOneDictKey ==
    (op = "as_key" /\ a.keys = b.keys) =>
        /\ result.eq
        /\ result.hash_eq
        /\ result.found

\* C8: remove(a, b), on two chords of one registry, fails whenever keys(b) is
\* not a subset of keys(a), and otherwise returns the chord whose keys are
\* keys(a) minus keys(b).
C8_RemoveRequiresSubset ==
    (op = "remove" /\ same_system(a, b)) =>
        /\ ~(b.keys \subseteq a.keys) => ~result.ok
        /\ (b.keys \subseteq a.keys) =>
               /\ result.ok
               /\ result.val = [system |-> a.system, keys |-> a.keys \ b.keys]

C8_Witness ==
    /\ op = "remove"
    /\ same_system(a, b)
    /\ b.keys /= {}
    /\ result.ok
    /\ result.val.keys /= {}

\* C9: a union A + B in which no key is mapped to unequal values by A and B
\* has one entry per key of A or B, so |A| + |B| entries when the key sets
\* are disjoint and one entry for a key of both, and every key maps to the
\* value it has in the operands.
C9_UnionWithoutConflict ==
    (op = "add" /\ Conflicting = {}) =>
        /\ result.ok
        /\ Len(result.val) = Len(dictA) + Len(dictB) - Cardinality(Shared)
        /\ \A i \in 1..Len(result.val) : \A j \in 1..Len(result.val) :
               i /= j => ~same_key(result.val[i].key, result.val[j].key)
        /\ \A i \in 1..Len(dictA) :
               /\ dict_has(result.val, dictA[i].key)
               /\ dict_get(result.val, dictA[i].key) = dictA[i].value
        /\ \A i \in 1..Len(dictB) :
               /\ dict_has(result.val, dictB[i].key)
               /\ dict_get(result.val, dictB[i].key) = dictB[i].value

\* a key of both with equal values, and a key of one operand only
C9_Witness ==
    /\ op = "add"
    /\ Conflicting = {}
    /\ Shared /= {}
    /\ Len(dictA) = 2
    /\ Len(dictB) = 2
    /\ result.ok
    /\ Len(result.val) = 3

\* C10: a cross product A * B with the default combiners in which the keys
\* of every pair combine and no two pairs produce equal combined keys has
\* exactly |A| * |B| entries, combine(ka, kb) -> va followed by vb for
\* every pair; {a: "1"} * {b: "2"} is exactly {combine(a, b): "12"}.
C10_CrossProductWithoutCollision ==
    (/\ op = "mul"
     /\ \A p \in Pairs : PairKey(p).ok
     /\ \A p \in Pairs : \A q \in Pairs : ~Collide(p, q)) =>
        /\ result.ok
        /\ Len(result.val) = Len(dictA) * Len(dictB)
        /\ \A p \in Pairs :
               /\ dict_has(result.val, PairKey(p).val)
               /\ dict_get(result.val, PairKey(p).val) = PairValue(p)
        /\ (/\ Len(dictA) = 1 /\ dictA[1].value = "1"
            /\ Len(dictB) = 1 /\ dictB[1].value = "2") =>
               result.val = <<Entry(combine(dictA[1].key, dictB[1].key).val, "12")>>

C10_Witness ==
    /\ op = "mul"
    /\ Len(dictA) = 2
    /\ Len(dictB) = 2
    /\ \A p \in Pairs : PairKey(p).ok
    /\ \A p \in Pairs : \A q \in Pairs : ~Collide(p, q)
    /\ result.ok
    /\ Len(result.val) = 4

\* the text of the state has been parsed: result and warnings are its
\* outcome
Parsed == op \in {"parse", "insert"}

\* the right-zone and the middle-zone keys, by the names of the keys
ZoneRight(sys) == {k \in to_set(sys.all_keys) : startswith(k, "-")}
ZoneMiddle(sys) == {k \in to_set(sys.all_keys) : ~contains_char(k, "-")}

\* no separator in the text, a right-zone key and no middle-zone key in keys
SeparatorMissing(sys, txt, keys) ==
    /\ ~contains_char(txt, "-")
    /\ keys \cap ZoneRight(sys) /= {}
    /\ keys \cap ZoneMiddle(sys) = {}

\* C12: System.parse fails if text remains unconsumed after the scan, and
\* fails, even with all text consumed, if the text has no separator and the
\* key set has a right-zone key and no middle-zone key; in every other case
\* it returns a chord.
C12_ParseFailureConditions ==
    Parsed =>
        LET s == scan(registry[1], text)
        IN  /\ s.left /= "" => ~result.ok
            /\ (s.left = "" /\ SeparatorMissing(registry[1], text, to_set(s.out)))
                   => ~result.ok
            /\ (s.left = "" /\ ~SeparatorMissing(registry[1], text, to_set(s.out)))
                   => (result.ok /\ is_chord(result.val))

\* all text consumed, and yet a failure
C12_Witness ==
    /\ op = "parse"
    /\ text /= ""
    /\ scan(registry[1], text).left = ""
    /\ ~result.ok

\* the real keys of out, the unordered ones left out, are not in steno order
OutOfOrder(sys, out) ==
    \E i \in 1..Len(out) : \E j \in 1..Len(out) :
        /\ i < j
        /\ ~in_list(out[i], sys.unordered_keys)
        /\ ~in_list(out[j], sys.unordered_keys)
        /\ list_index(sys.key_order, out[i]) > list_index(sys.key_order, out[j])

\* C13: when the consumed pseudo keys expand to real keys that are not in
\* steno order, System.parse only writes a warning (none with warnings
\* switched off) and returns the chord of the union of the expansions of the
\* consumed pseudo keys, the same chord with warnings on and off.
C13_OrderViolationOnlyWarns ==
    Parsed =>
        LET s == scan(registry[1], text)
        IN  (/\ OutOfOrder(registry[1], s.out)
             /\ s.left = ""
             /\ ~SeparatorMissing(registry[1], text, to_set(s.out))) =>
                /\ result.ok
                /\ result.val = [system |-> 1, keys |-> to_set(s.out)]
                /\ warnings = (IF write_warnings THEN 1 ELSE 0)

C13_Witness ==
    /\ op = "parse"
    /\ OutOfOrder(registry[1], scan(registry[1], text).out)
    /\ result.ok
    /\ warnings = 1

\* C14: if a text parses to a chord c, the text with the name of an
\* unordered key u put in at any place (every place of a parsed text is a
\* boundary between consumed tokens, the names being one character long)
\* parses to the chord with the keys of c and u.
C14_UnorderedAnywhere ==
    op = "insert" =>
        /\ result.ok
        /\ result.val.keys = chord.keys \cup third.keys

\* the marker put in before a left key of a chord of two keys or more
C14_Witness ==
    /\ op = "insert"
    /\ result.ok
    /\ Cardinality(chord.keys) >= 2
    /\ chord.keys \cap third.keys = {}
    /\ Len(text) >= 2
    /\ Head(text) = "#"

\* the tokens plover_str emits for the chord of the state, in their order,
\* and the text they make
Emitted == outputs_of(chord, registry[1].mandatory_replacements)
EmittedText ==
    join([k \in 1..Len(Emitted) |->
             IF Emitted[k] = "-" THEN "-" ELSE remove_hyphens(Emitted[k])])

\* the effective order index of a token: the separator's place in the key
\* order; for a name, the place of the first constituent that is not
\* unordered, or of the first constituent if all are
EffectiveIndex(sys, token) ==
    IF token = "-" THEN list_index(sys.key_order, "-")
    ELSE LET e == expand_key(sys, token)
             ordered == SelectSeq(e, LAMBDA i : ~in_list(i, sys.unordered_keys))
         IN  list_index(sys.key_order, IF ordered /= <<>> THEN ordered[1] ELSE e[1])

\* C15: plover_str contains the separator '-' if and only if the chord has
\* a right-zone key and no middle-zone key, and the emitted tokens appear
\* in non-decreasing effective order index.
C15_RenderSeparatorAndOrder ==
    op = "plover_str" =>
        /\ text = EmittedText
        /\ contains_char(text, "-") <=>
               /\ chord.keys \cap ZoneRight(registry[1]) /= {}
               /\ chord.keys \cap ZoneMiddle(registry[1]) = {}
        /\ \A i \in 1..Len(Emitted) : \A j \in 1..Len(Emitted) :
               i < j => EffectiveIndex(registry[1], Emitted[i])
                            <= EffectiveIndex(registry[1], Emitted[j])

\* a left key, the separator and a right key
C15_Witness ==
    /\ op = "plover_str"
    /\ Len(text) = 3
    /\ SubSeq(text, 2, 2) = "-"

\* the mandatory replacements all of whose constituents are in the chord
Matched ==
    {k \in 1..Len(registry[1].mandatory_replacements) :
        to_set(registry[1].mandatory_replacements[k].keys) \subseteq chord.keys}

\* C16: plover_str emits the name of a mandatory replacement exactly when
\* all its constituents are in the chord, a real key exactly when it is in
\* the chord and in no matched mandatory replacement, and never the name of
\* an optional replacement; the expansions of the emitted tokens together
\* are the chord's keys.
C16_RenderSubstitution ==
    op = "plover_str" =>
        LET sys == registry[1]
            names == to_set(Emitted) \ {"-"}
        IN  /\ text = EmittedText
            /\ \A k \in 1..Len(sys.mandatory_replacements) :
                   sys.mandatory_replacements[k].name \in names <=> k \in Matched
            /\ \A key \in to_set(sys.all_keys) :
                   key \in names <=>
                       /\ key \in chord.keys
                       /\ \A k \in Matched : ~in_list(key, sys.mandatory_replacements[k].keys)
            /\ \A k \in 1..Len(sys.optional_replacements) :
                   sys.optional_replacements[k].name \notin names
            /\ UNION {to_set(expand_key(sys, n)) : n \in names} = chord.keys

\* a chord that is the expansion of a mandatory replacement
C16_Witness ==
    /\ op = "plover_str"
    /\ Matched /= {}
    /\ Len(text) = 1

\* the real keys of a configuration, and all its replacement rules
ConfigKeys(cfg) == to_set(cfg.key_order) \ {"-"}
ConfigRules(cfg) == to_set(cfg.optional_replacements \o cfg.mandatory_replacements)

\* some input names a key that is no real key of the key order
NamesUnknownKey(cfg) ==
    \/ \E r \in ConfigRules(cfg) : ~(to_set(r.keys) \subseteq ConfigKeys(cfg))
    \/ ~(to_set(cfg.unordered_keys) \subseteq ConfigKeys(cfg))
    \/ ~(to_set(cfg.combining_keys) \subseteq ConfigKeys(cfg))

\* C17, as claimed: the construction of a registry fails if a constituent of
\* a replacement, an entry of unordered_keys or an entry of combining_keys is
\* not a real key of the key order, and no registry object results.
C17_UnknownKeyFailsConstruction ==
    (op = "System" /\ NamesUnknownKey(config)) =>
        /\ ~result.ok
        /\ registry = <<>>

\* some replacement of real keys lists them out of steno order
SomeRuleOutOfOrder(cfg) ==
    \E r \in ConfigRules(cfg) :
        /\ to_set(r.keys) \subseteq ConfigKeys(cfg)
        /\ OutOfOrder(cfg, r.keys)

\* C18: the construction fails whenever some optional or mandatory
\* replacement lists its real keys out of steno order, unordered keys left
\* out and a key listed twice being in order; it succeeds when a separator
\* is in the key order and every replacement lists real keys in steno order,
\* and whenever it succeeds every replacement is in steno order.
C18_ReplacementOrderChecked ==
    op = "System" =>
        /\ SomeRuleOutOfOrder(config) => ~result.ok
        /\ (/\ in_list("-", config.key_order)
            /\ \A r \in ConfigRules(config) :
                   /\ to_set(r.keys) \subseteq ConfigKeys(config)
                   /\ ~OutOfOrder(config, r.keys)) => result.ok
        /\ result.ok => \A r \in ConfigRules(config) : ~OutOfOrder(config, r.keys)

\* a mandatory replacement out of order is all that is wrong
C18_Witness ==
    /\ op = "System"
    /\ in_list("-", config.key_order)
    /\ ~NamesUnknownKey(config)
    /\ config.optional_replacements = <<>>
    /\ SomeRuleOutOfOrder(config)
    /\ ~result.ok

\* the scenario's registry: the real keys S-, T-, A, -F and a separator next
\* to the middle key, and nothing else
ScenarioConfig ==
    /\ in_list("-", config.key_order)
    /\ config.unordered_keys = <<>>
    /\ config.combining_keys = <<>>
    /\ config.optional_replacements = <<>>
    /\ config.mandatory_replacements = <<>>

\* C19: the scenario's registry can be constructed, and in it "ST" parses to
\* {S-, T-}, which renders "ST", "-F" parses to {-F}, which renders "-F",
\* and combine({S-, T-}, {-F}) succeeds and renders "ST-F".
C19_Scenario ==
    ScenarioConfig =>
        /\ op = "System" => (result.ok /\ registry /= <<>>)
        /\ (op = "parse" /\ text = "ST") =>
               (result.ok /\ result.val.keys = {"S-", "T-"})
        /\ (op = "parse" /\ text = "-F") =>
               (result.ok /\ result.val.keys = {"-F"})
        /\ (op = "combine" /\ a.keys = {"S-", "T-"} /\ b.keys = {"-F"}) =>
               (result.ok /\ result.val.keys = {"S-", "T-", "-F"})
        /\ (op = "plover_str" /\ chord.keys = {"S-", "T-"}) => text = "ST"
        /\ (op = "plover_str" /\ chord.keys = {"-F"}) => text = "-F"
        /\ (op = "plover_str" /\ chord.keys = {"S-", "T-", "-F"}) => text = "ST-F"

\* the chord combined from {S-, T-} and {-F} has been rendered
C19_Witness ==
    /\ ScenarioConfig
    /\ op = "plover_str"
    /\ a.keys = {"S-", "T-"}
    /\ b.keys = {"-F"}
    /\ chord.keys = {"S-", "T-", "-F"}
    /\ text = "ST-F"

\* the tokens of the state parsed, one by one
ParsedTokens == [i \in 1..Len(tokens) |-> parse(registry[1], tokens[i])]

\* the entries of dictA stored under the parsed key: under the tuple of the
\* chords, or under the chord of a one-token key
StoredUnder ==
    LET chords == [i \in 1..Len(tokens) |-> ParsedTokens[i].val]
    IN  {j \in 1..Len(dictA) :
            IF is_chord(dictA[j].key)
            THEN Len(chords) = 1 /\ same_key(dictA[j].key, chords[1])
            ELSE same_key(dictA[j].key, [tuple |-> chords])}

\* C11: plover_lookup raises KeyError, and never the parser's ValueError,
\* when a token does not parse or the parsed key is absent from the
\* Dictionary; when all tokens parse and the key is present it returns the
\* stored value.
C11_LookupNotFound ==
    op = "plover_lookup" =>
        IF \E i \in 1..Len(tokens) : ~ParsedTokens[i].ok
        THEN ~result.ok /\ result.err = "KeyError"
        ELSE IF StoredUnder = {}
        THEN ~result.ok /\ result.err = "KeyError"
        ELSE result.ok /\ \E j \in StoredUnder : result.val = dictA[j].value

\* a key of two tokens found in a Dictionary of two entries
C11_Witness ==
    /\ op = "plover_lookup"
    /\ Len(tokens) = 2
    /\ Len(dictA) = 2
    /\ result.ok
    /\ result.val = "2"

\* the chord toggle's key denotes, if it denotes one
ToggleKey ==
    IF op = "toggle_chord" THEN Return(chord) ELSE parse(registry[1], text)

Toggled == op \in {"toggle_chord", "toggle_str"}

\* C20, as claimed: toggle(k, v, default=d) returns a Dictionary of exactly
\* two entries, k -> v and the empty chord -> d, for every chord or parsable
\* text k, one that denotes the empty chord too.
C20_ToggleTwoEntries ==
    (Toggled /\ ToggleKey.ok) =>
        /\ result.ok
        /\ Len(result.val) = 2
        /\ dict_get(result.val, ToggleKey.val) = value
        /\ dict_get(result.val, empty_chord(registry[1])) = default

\* C20, amended: for a chord or parsable text k, toggle(k, v, default=d)
\* returns a Dictionary of exactly the two entries k -> v and empty chord ->
\* d, unless k denotes the registry's own empty chord: then it returns the
\* Dictionary of the one entry empty chord -> d, and v is lost.
C20_ToggleEntries ==
    (Toggled /\ ToggleKey.ok) =>
        /\ result.ok
        /\ dict_has(result.val, empty_chord(registry[1]))
        /\ dict_get(result.val, empty_chord(registry[1])) = default
        /\ IF same_key(ToggleKey.val, empty_chord(registry[1]))
           THEN Len(result.val) = 1
           ELSE /\ Len(result.val) = 2
                /\ dict_has(result.val, ToggleKey.val)
                /\ dict_get(result.val, ToggleKey.val) = value

\* the text of the empty chord as the key, and a value that is not the
\* default
C20_Witness ==
    /\ op = "toggle_str"
    /\ text = ""
    /\ value /= default
    /\ result.ok
    /\ Len(result.val) = 1

\* the places of pairs whose key is the dict key k, and the last of them
Occurrences(k) == {i \in 1..Len(pairs) : same_key(pairs[i][1], k)}
LastOccurrence(k) == CHOOSE i \in Occurrences(k) : \A j \in Occurrences(k) : j <= i

\* the pairs whose key stood in the sequence before
Repeats == {i \in 1..Len(pairs) : \E j \in 1..(i - 1) : same_key(pairs[j][1], pairs[i][1])}

\* C21: the construction of a Dictionary from a sequence of pairs never
\* fails on a repeated key: the result has one entry per distinct key, each
\* mapped to the value of the key's last occurrence in the sequence, and the
\* only other effect is a warning (one for each repetition, none with the
\* warnings switched off).
C21_ConstructionLastWins ==
    op = "Dictionary" =>
        /\ result.ok
        /\ \A i \in 1..Len(pairs) : dict_has(result.val, pairs[i][1])
        /\ \A i \in 1..Len(result.val) :
               /\ Occurrences(result.val[i].key) /= {}
               /\ result.val[i].value = pairs[LastOccurrence(result.val[i].key)][2]
               /\ \A j \in 1..Len(result.val) :
                      i /= j => ~same_key(result.val[i].key, result.val[j].key)
        /\ warnings = (IF write_warnings THEN Cardinality(Repeats) ELSE 0)

\* a key three times, the last value not the first
C21_Witness ==
    /\ op = "Dictionary"
    /\ Len(pairs) = 3
    /\ Cardinality(Repeats) = 2
    /\ pairs[1][2] /= pairs[3][2]
    /\ result.ok
    /\ Len(result.val) = 1
    /\ warnings = 2

\* a list of keys was handed to the difference, and its j-th key is absent
\* from dictA by dictA's own membership test, which decides on the warning
ListGiven == has_iter(listed)
Absent(j) == ~dictionary_contains(dictA, listed.list[j])

\* the list without the key k
ListWithout(k) == [list |-> SelectSeq(listed.list, LAMBDA x : x /= k)]

\* C22, as claimed: the difference A - keys never fails; the result is
\* exactly the entries of A whose key equals (==) none of the listed keys,
\* with their values; a listed key absent from A changes nothing in the
\* result and only causes a warning.
C22_DifferenceWarnedNoOp ==
    (op = "sub" /\ ListGiven) =>
        /\ result.ok
        /\ result.val = SelectSeq(dictA,
               LAMBDA e : \A j \in 1..Len(listed.list) : ~key_eq(e.key, listed.list[j]))
        /\ \A j \in 1..Len(listed.list) :
               Absent(j) =>
                   /\ dict_sub(dictA, ListWithout(listed.list[j])).val = result.val
                   /\ warnings >= 1

\* the entries of dictA whose value is the value asked for
Matching == {j \in 1..Len(dictA) : dictA[j].value = value}

\* the rendered texts of a key, one per chord
Rendered(k) ==
    LET chords == IF is_chord(k) THEN <<k>> ELSE k.tuple
    IN  [c \in 1..Len(chords) |-> plover_str(chords[c])]

\* C24: keys_for(value) returns exactly the keys of the Dictionary whose
\* value equals the value, each once, and plover_reverse_lookup(output)
\* returns for exactly those keys the tuple of the rendered texts of the
\* key's chords; the result is empty when no entry has the value.
C24_ReverseLookup ==
    /\ op = "keys_for" =>
           /\ Len(result.val) = Cardinality(Matching)
           /\ \A j \in Matching : \E i \in 1..Len(result.val) : result.val[i] = dictA[j].key
           /\ \A i \in 1..Len(result.val) : \E j \in Matching : result.val[i] = dictA[j].key
    /\ op = "plover_reverse_lookup" =>
           /\ Len(result.val) = Cardinality(Matching)
           /\ \A j \in Matching :
                  \E i \in 1..Len(result.val) : result.val[i] = Rendered(dictA[j].key)
           /\ \A i \in 1..Len(result.val) :
                  \E j \in Matching : result.val[i] = Rendered(dictA[j].key)
    /\ (op \in {"keys_for", "plover_reverse_lookup"} /\ Matching = {}) => result.val = <<>>

\* one of two entries has the value, its key a tuple of two chords
C24_Witness ==
    /\ op = "plover_reverse_lookup"
    /\ Len(dictA) = 2
    /\ result.val = << <<"S", "#">> >>

\* the key and the value map makes of the j-th entry of dictA
MappedKey(j) == apply_keyFn(keyFn, chord, dictA[j].key)
MappedValue(j) == apply_valueFn(valueFn, dictA[j].value)

\* the entries whose mapped key is that of the j-th, and the last of them
MappedLike(j) == {i \in 1..Len(dictA) : same_key(MappedKey(i).val, MappedKey(j).val)}
LastMappedLike(j) == CHOOSE i \in MappedLike(j) : \A l \in MappedLike(j) : l <= i

\* C25, as claimed: map, where keyFn applies to every key, yields exactly
\* one pair (keyFn(k), valueFn(v)) per entry (k, v) of the source; with
\* keyFn omitted the keys are unchanged, with valueFn omitted the values,
\* with both the entries are the source's.
C25_MapOnePairPerEntry ==
    (op = "map" /\ \A j \in 1..Len(dictA) : MappedKey(j).ok) =>
        /\ result.ok
        /\ Len(result.val) = Len(dictA)
        /\ \A j \in 1..Len(dictA) :
               result.val[j] = Entry(MappedKey(j).val, MappedValue(j))

\* C25, amended: map fails if keyFn fails on a key; otherwise it returns
\* one entry per distinct mapped key keyFn(k), with valueFn(v) of the last
\* entry (k, v) mapped to that key, and writes a warning for every entry
\* whose mapped key an earlier entry had: as many entries as the source only
\* if keyFn maps no two keys to one.  With keyFn omitted the keys are
\* unchanged, one pair (k, valueFn(v)) per entry; with valueFn omitted the
\* values are the source's; with both omitted the entries are the source's.
C25_MapEntries ==
    op = "map" =>
        /\ result.ok <=> \A j \in 1..Len(dictA) : MappedKey(j).ok
        /\ result.ok =>
               /\ \A j \in 1..Len(dictA) :
                      /\ dict_has(result.val, MappedKey(j).val)
                      /\ dict_get(result.val, MappedKey(j).val)
                             = MappedValue(LastMappedLike(j))
               /\ Len(result.val) = Cardinality({LastMappedLike(j) : j \in 1..Len(dictA)})
               /\ warnings = Len(dictA) - Len(result.val)
        /\ keyFn = "identity" =>
               /\ result.ok
               /\ Len(result.val) = Len(dictA)
               /\ \A j \in 1..Len(dictA) :
                      result.val[j] = Entry(dictA[j].key, MappedValue(j))
        /\ (valueFn = "identity" /\ result.ok) =>
               \A j \in 1..Len(dictA) :
                   dict_get(result.val, MappedKey(j).val) = dictA[LastMappedLike(j)].value
        /\ (keyFn = "identity" /\ valueFn = "identity") => result.val = dictA

\* two keys mapped to one key, the values mapped too
C25_Witness ==
    /\ op = "map"
    /\ keyFn = "add"
    /\ valueFn = "suffix"
    /\ Len(dictA) = 2
    /\ result.ok
    /\ Len(result.val) = 1
    /\ warnings = 1

\* C29, as claimed: for every listed key k, `k in (A - keys)` is false, also
\* when A is keyed by chords and k is the one-element tuple of a chord, or
\* the reverse.
C29_ListedKeyNotInDifference ==
    op = "contains" => ~result.val

\* C23: no combinator mutates its operands: after union, difference, map,
\* cross product, with_empty_chord or copy each operand has exactly the
\* entries it had before the call, the Dictionary returned holds a dict
\* object that is no operand's, and a later key assignment on the returned
\* Dictionary changes no operand.
C23_OperandsUnchanged ==
    op /= "init" =>
        /\ heap[1] = dictA
        /\ heap[2] = dictB
        /\ result.ok => result.ref \notin {1, 2}

\* a key of the operand assigned another value in its copy
C23_Witness ==
    /\ op = "setitem"
    /\ dict_has(dictA, item)
    /\ dict_get(dictA, item) /= value
    /\ dict_get(heap[result.ref], item) = value
    /\ heap[result.ref] /= heap[1]
    /\ Len(heap[result.ref]) = Len(heap[1])

\* the four zones of a registry: the real keys of each, and its pseudo-key
\* list
ZoneKeys(sys) ==
    << to_set(sys.left_keys), to_set(sys.left_middle_keys),
       to_set(sys.right_middle_keys), to_set(sys.right_keys) >>
ZoneLists(sys) ==
    << sys.left_pseudo_keys, sys.left_middle_pseudo_keys,
       sys.right_middle_pseudo_keys, sys.right_pseudo_keys >>

\* the names of the replacement rules, and the constituents of a rule that
\* place it: those that are not unordered, which may stand anywhere
RuleNames(sys) ==
    to_set(table_keys(sys.optional_replacements) \o table_keys(sys.mandatory_replacements))
Placing(sys, name) == to_set(expand_key(sys, name)) \ to_set(sys.unordered_keys)

\* C26, as claimed: each zone's pseudo-key list consists of the zone's real
\* keys and exactly the replacement rules whose expansion (its unordered
\* constituents aside) lies in that zone, sorted by the order index of each
\* entry's first constituent that is not unordered; so for the English
\* registry and its digit rules 5 = #A and 0 = #O.
C26_PseudoKeyZones ==
    LET sys == registry[1]
    IN  \A z \in 1..4 :
            /\ to_set(ZoneLists(sys)[z])
                   = ZoneKeys(sys)[z]
                         \cup {n \in RuleNames(sys) :
                                  /\ Placing(sys, n) /= {}
                                  /\ Placing(sys, n) \subseteq ZoneKeys(sys)[z]}
            /\ \A i \in 1..Len(ZoneLists(sys)[z]) : \A j \in 1..Len(ZoneLists(sys)[z]) :
                   i < j => EffectiveIndex(sys, ZoneLists(sys)[z][i])
                                <= EffectiveIndex(sys, ZoneLists(sys)[z][j])

\* C27, as claimed: for every entry (k, v) of a Dictionary of one registry's
\* chords, or of tuples of them, plover_lookup with the tuple of the
\* rendered texts of k's chords, the tokens to_plover_dict joins with "/",
\* returns v; and the exported dict holds v under the joined tokens.
C27_ExportedEntryFound ==
    /\ op = "export_lookup" => (result.ok /\ result.val = value)
    /\ op = "to_plover_dict" =>
           \A j \in 1..Len(dictA) :
               \E i \in 1..Len(result.val) :
                   /\ result.val[i].key = join_strokes(plover_strs(dictA[j].key))
                   /\ result.val[i].value = dictA[j].value

\* C30, as claimed: for chords a, b of one registry for which combine(a, b)
\* succeeds, also when they share combining keys, remove(combine(a, b), b)
\* succeeds and equals a.
C30_RemoveUndoesCombine ==
    (op = "add_sub" /\ same_system(a, b) /\ combine(a, b).ok) =>
        /\ result.ok
        /\ result.val = a

\* C30, amended: for chords a, b of one registry for which combine(a, b)
\* succeeds, remove(combine(a, b), b) succeeds and returns the chord of the
\* keys of a that are not keys of b; it equals a exactly when a and b share
\* no key, and lacks the combining keys they share otherwise.
C30_RemoveAfterCombine ==
    (op = "add_sub" /\ same_system(a, b) /\ combine(a, b).ok) =>
        /\ result.ok
        /\ result.val = [system |-> a.system, keys |-> a.keys \ b.keys]
        /\ result.val = a <=> a.keys \cap b.keys = {}
        /\ a.keys \cap b.keys \subseteq to_set(registry[a.system].combining_keys)

\* a and b share a combining key, and a has another key
C30_Witness ==
    /\ op = "add_sub"
    /\ same_system(a, b)
    /\ a.keys \cap b.keys /= {}
    /\ result.ok
    /\ result.val /= a
    /\ result.val.keys /= {}

\* where the scan stands, counted in steps of the positional keys: it
\* never goes back
ScanPosition(p) ==
    CASE p.at = "idle" -> 0
      [] p.at = "returned" -> 10000
      [] p.at = "scanned" -> 9999
      [] OTHER -> p.stage * 1000 + p.k * 4
                    + (CASE p.at = "all" -> 0 [] p.at = "drain" -> 1
                         [] p.at = "one" -> 2 [] p.at = "hyphen" -> 3)

\* C28: in the English registry, whose unordered pseudo-key names are all
\* non-empty without their hyphens, System.parse returns or raises on
\* every text: the pass over the unordered keys is repeated only after a
\* pass that consumed at least one character, each positional pseudo-key
\* is tried once, and every step either shortens the text left or takes
\* the scan on, never lengthening the text left.
C28_ParseTerminates ==
    /\ <>(pc.at = "returned")
    /\ [][ /\ Len(parse_left') <= Len(parse_left) \/ pc.at = "idle"
           /\ (unordered_done /\ ~unordered_done') =>
                  Len(parse_left') < Len(parse_left)
           /\ (pc.at = "drain" /\ pc'.at = "drain" /\ pc'.u <= pc.u) =>
                  ~unordered_done
           /\ pc.at = "one" => (pc'.k = pc.k + 1 /\ pc'.stage = pc.stage)
           /\ \/ Len(parse_left') < Len(parse_left)
              \/ ScanPosition(pc') > ScanPosition(pc)
              \/ (pc.at = "drain" /\ pc'.at = "drain"
                    /\ ScanPosition(pc') = ScanPosition(pc))
         ]_vars

\* parse returned after a pass over the unordered keys was repeated
C28_Witness ==
    /\ pc.at = "returned"
    /\ Len(text) = MaxScanLen
    /\ \E n \in 1..Len(parse_out) : parse_out[n] = "#"

====
